---- MODULE Spec2Model ----
(***************************************************************************)
(* A model of DatabaseReplicator (src/unnamed/part_000): the staged copy  *)
(* of a source property graph (schema, nodes, relationships) into a        *)
(* target graph, with the transient source_id correlation property, and    *)
(* of main, which tests both connections, runs the copy and ends the       *)
(* process.                                                                *)
(*                                                                         *)
(* The database engine is the environment: a statement either returns or   *)
(* raises, and the model chooses which.  Under Spec the source graph is    *)
(* static during a run and is enumerated in one fixed order; under          *)
(* DriftSpec other clients change it up to MaxChanges times during the run. *)
(* ClearSpec runs clearTargetDatabase alone, repeatedly.                    *)
(*                                                                         *)
(* ScriptSpec models the ingestion script (src/scripts/main.ts) where it   *)
(* looks up and creates Instructor nodes, over MaxTerms terms.             *)
(***************************************************************************)
EXTENDS Integers, Sequences, FiniteSets, TLC

(* ------------------------------ bounds -------------------------------- *)

MaxNodes == 5

MaxRels == 3

MaxBatch == 3

MaxRules == 2

MaxClears == 3

MaxChanges == 2

MaxTerms == 2

(* --------------------------- small utilities --------------------------- *)

Min(a, b) == IF a < b THEN a ELSE b

Range(s) == { s[i] : i \in 1..Len(s) }

SeqsUpTo(S, n) == UNION { [1..k -> S] : k \in 0..n }

(* ---------------- strings of the label key (join / split) -------------- *)
(* A label is a string, modelled as a sequence of characters, so that the  *)
(* key  labels.sort().join(',')  and its  split(',')  are computed and     *)
(* not assumed to be inverse.                                              *)

LA == <<"A">>

LB == <<"B">>

LAB == <<"A", ",", "B">>

\* UTF-16 order of the characters used: ',' (44) < 'A' (65) < 'B' (66)
CharRank(c) == CASE c = "," -> 44 [] c = "A" -> 65 [] c = "B" -> 66

RECURSIVE StrLess(_, _)
\* s < t in the default order of Array.prototype.sort (code-unit order)
StrLess(s, t) ==
  IF s = << >> THEN t # << >>
  ELSE IF t = << >> THEN FALSE
  ELSE IF CharRank(Head(s)) < CharRank(Head(t)) THEN TRUE
  ELSE IF CharRank(Head(s)) > CharRank(Head(t)) THEN FALSE
  ELSE StrLess(Tail(s), Tail(t))

RECURSIVE Insert(_, _)
Insert(x, sorted) ==
  IF sorted = << >> THEN << x >>
  ELSE IF StrLess(x, Head(sorted)) THEN << x >> \o sorted
  ELSE << Head(sorted) >> \o Insert(x, Tail(sorted))

RECURSIVE SortLabels(_)
\* node.labels.sort()
SortLabels(labels) ==
  IF labels = << >> THEN << >>
  ELSE Insert(Head(labels), SortLabels(Tail(labels)))

RECURSIVE Join(_, _)
\* parts.join(sep): the parts concatenated with sep between them
Join(parts, sep) ==
  IF parts = << >> THEN << >>
  ELSE IF Len(parts) = 1 THEN parts[1]
  ELSE parts[1] \o << sep >> \o Join(Tail(parts), sep)

RECURSIVE SplitFrom(_, _, _)
SplitFrom(str, sep, cur) ==
  IF str = << >> THEN << cur >>
  ELSE IF Head(str) = sep THEN << cur >> \o SplitFrom(Tail(str), sep, << >>)
  ELSE SplitFrom(Tail(str), sep, Append(cur, Head(str)))

\* str.split(sep); "".split(',') is [""]
Split(str, sep) == SplitFrom(str, sep, << >>)

\* const labelKey = node.labels.sort().join(',')
LabelKey(labels) == Join(SortLabels(labels), ",")

\* const labels = labelKey ? labelKey.split(',') : []
KeyLabels(labelKey) == IF labelKey # << >> THEN Split(labelKey, ",") ELSE << >>

(* ----------------------------- property maps --------------------------- *)

NoProps == [k \in {} |-> 0]

\* variant: the two SET items in the other order, SET n.source_id = node.nodeId,
\* n = node.properties (the map assignment replaces every property)
SetNodePropsIdFirst(properties, nodeId) == properties

\* SET n = node.properties, n.source_id = node.nodeId
SetNodeProps(properties, nodeId) ==
  [k \in (DOMAIN properties) \cup {"source_id"} |->
     IF k = "source_id" THEN nodeId ELSE properties[k]]

\* REMOVE n.source_id
RemoveSourceId(properties) ==
  [k \in (DOMAIN properties) \ {"source_id"} |-> properties[k]]

HasSourceId(properties) == "source_id" \in DOMAIN properties

(* ------------------------------ statements ----------------------------- *)
(* The text of a generated schema statement, kept as its parts:            *)
(*   verb name FOR (n:l1|l2) / ()-[r:l1]-()  REQUIRE|ON  props  req        *)
(* props are the rendered property references, <<"n", p>> for n.p,         *)
(* <<"r", p>> for r.p and <<"'", p>> for the quoted literal 'p'.           *)

Stmt(verb, name, scope, labels, props, req) ==
  [verb |-> verb, name |-> name, scope |-> scope,
   labels |-> labels, props |-> props, req |-> req]

\* let createStatement = ''
NoStmt == Stmt("", << >>, "", << >>, << >>, "")

\* properties.map(p => `${v}.${p}`)
PropRefs(v, properties) == [i \in 1..Len(properties) |-> << v, properties[i] >>]

\* variant: NODE_KEY translated like a uniqueness constraint (the key's existence
\* half lost)
ConstraintStatementKeyAsUnique(c) ==
  IF c.type = "UNIQUENESS" /\ c.entityType = "RELATIONSHIP"
  THEN Stmt("CREATE CONSTRAINT", c.name, "RELATIONSHIP",
            << c.labelsOrTypes[1] >>, PropRefs("r", c.properties), "IS UNIQUE")
  ELSE IF c.type \in {"UNIQUENESS", "NODE_KEY"}
  THEN Stmt("CREATE CONSTRAINT", c.name, "NODE",
            << c.labelsOrTypes[1] >>, PropRefs("n", c.properties), "IS UNIQUE")
  ELSE IF c.type \in {"NODE_PROPERTY_EXISTENCE", "EXISTENCE"}
  THEN Stmt("CREATE CONSTRAINT", c.name, "NODE",
            << c.labelsOrTypes[1] >>, << << "n", c.properties[1] >> >>, "IS NOT NULL")
  ELSE IF c.type = "RELATIONSHIP_PROPERTY_EXISTENCE"
  THEN Stmt("CREATE CONSTRAINT", c.name, "RELATIONSHIP",
            << c.labelsOrTypes[1] >>, << << "r", c.properties[1] >> >>, "IS NOT NULL")
  ELSE NoStmt

\* copySchema, the statement built for one row of SHOW CONSTRAINTS
ConstraintStatement(c) ==
  IF c.type = "UNIQUENESS"
  THEN IF c.entityType = "NODE"
       THEN Stmt("CREATE CONSTRAINT", c.name, "NODE",
                 << c.labelsOrTypes[1] >>, PropRefs("n", c.properties), "IS UNIQUE")
       ELSE IF c.entityType = "RELATIONSHIP"
       THEN Stmt("CREATE CONSTRAINT", c.name, "RELATIONSHIP",
                 << c.labelsOrTypes[1] >>, PropRefs("r", c.properties), "IS UNIQUE")
       ELSE NoStmt
  ELSE IF c.type = "NODE_PROPERTY_EXISTENCE" \/ c.type = "EXISTENCE"
  THEN Stmt("CREATE CONSTRAINT", c.name, "NODE",
            << c.labelsOrTypes[1] >>, << << "n", c.properties[1] >> >>, "IS NOT NULL")
  ELSE IF c.type = "RELATIONSHIP_PROPERTY_EXISTENCE"
  THEN Stmt("CREATE CONSTRAINT", c.name, "RELATIONSHIP",
            << c.labelsOrTypes[1] >>, << << "r", c.properties[1] >> >>, "IS NOT NULL")
  ELSE IF c.type = "NODE_KEY"
  THEN Stmt("CREATE CONSTRAINT", c.name, "NODE",
            << c.labelsOrTypes[1] >>, PropRefs("n", c.properties), "IS NODE KEY")
  ELSE NoStmt

\* copySchema, the statement built for one row of SHOW INDEXES
IndexStatement(x) ==
  IF x.type = "BTREE"
  THEN IF Len(x.labelsOrTypes) > 0 /\ x.labelsOrTypes[1] # ""
       THEN Stmt("CREATE INDEX", x.name, "NODE",
                 << x.labelsOrTypes[1] >>, PropRefs("n", x.properties), "ON")
       ELSE NoStmt
  ELSE IF x.type = "TEXT"
  THEN Stmt("CREATE TEXT INDEX", x.name, "NODE",
            << x.labelsOrTypes[1] >>, << << "n", x.properties[1] >> >>, "ON")
  ELSE IF x.type = "FULLTEXT"
  THEN Stmt("CREATE FULLTEXT INDEX", x.name, "NODE",
            x.labelsOrTypes, PropRefs("'", x.properties), "ON EACH")
  ELSE NoStmt

\* variant: the statement is run without the test for an empty one
IsStatementAlways(stmt) == TRUE

\* if (createStatement) { await targetSession.run(createStatement) } else { warn }
IsStatement(stmt) == stmt.verb # ""

(* ------------------------- schema rules of a source -------------------- *)

Rule(type, entityType, labelsOrTypes, properties) ==
  [type |-> type, entityType |-> entityType,
   labelsOrTypes |-> labelsOrTypes, properties |-> properties]

\* rows SHOW CONSTRAINTS can return (name added by position)
ConstraintRules ==
  { Rule("UNIQUENESS", "NODE", << "L" >>, << "p" >>),
    Rule("UNIQUENESS", "NODE", << "L" >>, << "p", "q" >>),
    Rule("UNIQUENESS", "RELATIONSHIP", << "T" >>, << "p", "q" >>),
    Rule("NODE_PROPERTY_EXISTENCE", "NODE", << "L" >>, << "p" >>),
    Rule("EXISTENCE", "NODE", << "L" >>, << "q" >>),
    Rule("RELATIONSHIP_PROPERTY_EXISTENCE", "RELATIONSHIP", << "T" >>, << "p" >>),
    Rule("NODE_KEY", "NODE", << "L" >>, << "p", "q" >>),
    Rule("NODE_PROPERTY_TYPE", "NODE", << "L" >>, << "p" >>) }

\* rows SHOW INDEXES WHERE type <> 'CONSTRAINT' can return
IndexRules ==
  { Rule("BTREE", "NODE", << "L" >>, << "p" >>),
    Rule("BTREE", "NODE", << "L" >>, << "p", "q" >>),
    Rule("RANGE", "NODE", << "L" >>, << "p" >>),
    Rule("TEXT", "NODE", << "L" >>, << "p" >>),
    Rule("FULLTEXT", "NODE", << "L", "K" >>, << "p", "q" >>),
    Rule("FULLTEXT", "RELATIONSHIP", << "T" >>, << "p" >>),
    Rule("LOOKUP", "NODE", << >>, << >>) }

\* constraint.get('name') / index.get('name'): names are distinct per database
Named(prefix, rules) ==
  [i \in 1..Len(rules) |->
     [name |-> << prefix, i >>, type |-> rules[i].type,
      entityType |-> rules[i].entityType,
      labelsOrTypes |-> rules[i].labelsOrTypes,
      properties |-> rules[i].properties]]

(* ------------------------------ source graph --------------------------- *)

\* labels (in stored order) and properties a source node can have
NodeShapes ==
  << [labels |-> << >>, properties |-> NoProps],
     [labels |-> << LA, LB >>, properties |-> [name |-> 1]],
     [labels |-> << LB, LA >>, properties |-> [source_id |-> 11]],
     [labels |-> << LA >>, properties |-> [name |-> 2]],
     [labels |-> << LAB >>, properties |-> NoProps] >>

\* id(n): engine-assigned, distinct per node
NodeIdOf(i) == 10 + i

\* MATCH (n) RETURN id(n) as nodeId, labels(n) as labels, properties(n) as properties
SourceNodes(n, off) ==
  [i \in 1..n |->
     LET shape == NodeShapes[((i - 1 + off) % Len(NodeShapes)) + 1]
     IN [nodeId |-> NodeIdOf(i), labels |-> shape.labels,
         properties |-> shape.properties]]

\* MATCH (a)-[r]->(b) RETURN id(a) as startId, id(b) as endId, type(r), properties(r)
\* (idx is the relationship's position in the source, kept to tell copies apart)
SourceRels(m, n) ==
  [j \in 1..m |->
     [startId |-> NodeIdOf(((j - 1) % n) + 1), endId |-> NodeIdOf((j % n) + 1),
      type |-> IF j % 2 = 1 THEN "R" ELSE "S",
      properties |-> IF j % 2 = 1 THEN [w |-> j] ELSE NoProps,
      idx |-> j]]

\* SKIP $skip LIMIT $limit over a static enumeration
Page(rows, skip, limit) == SubSeq(rows, skip + 1, Min(skip + limit, Len(rows)))

\* neo4j.int(this.batchSize / 2): the driver's integer keeps the whole part
RelLimit(b) == b \div 2

\* variant: the node pages sized like the relationship pages
NodeLimitHalved(b) == b \div 2

\* neo4j.int(this.batchSize)
NodeLimit(b) == b

(* -------------------------------- grouping ----------------------------- *)

\* if (!map.has(key)) map.set(key, []); map.get(key).push(item)
AddToGroup(groups, key, item) ==
  IF \E g \in 1..Len(groups) : groups[g].key = key
  THEN [g \in 1..Len(groups) |->
          IF groups[g].key = key
          THEN [key |-> key, items |-> Append(groups[g].items, item)]
          ELSE groups[g]]
  ELSE Append(groups, [key |-> key, items |-> << item >>])

RECURSIVE GroupNodesFrom(_, _)
GroupNodesFrom(nodesData, groups) ==
  IF nodesData = << >> THEN groups
  ELSE GroupNodesFrom(Tail(nodesData),
         AddToGroup(groups, LabelKey(Head(nodesData).labels), Head(nodesData)))

\* createNodesInTarget: nodesByLabels, in insertion order of the keys
GroupNodes(nodesData) == GroupNodesFrom(nodesData, << >>)

RECURSIVE GroupRelsFrom(_, _)
GroupRelsFrom(relsData, groups) ==
  IF relsData = << >> THEN groups
  ELSE GroupRelsFrom(Tail(relsData),
         AddToGroup(groups, Head(relsData).type, Head(relsData)))

\* createRelationshipsInTarget: relsByType, in insertion order of the keys
GroupRels(relsData) == GroupRelsFrom(relsData, << >>)

(* ------------------------- effects on the target ----------------------- *)
(* A target node is [labels, props, origin]; origin is the source node it  *)
(* was copied from (0 for a node this run did not create).  A target       *)
(* relationship is [from, to, type, props, origin], from/to positions in   *)
(* the target's node list.                                                 *)

\* UNWIND $nodes as node CREATE (n:labels) SET n = node.properties, n.source_id = node.nodeId
CreatedNodes(group) ==
  [i \in 1..Len(group.items) |->
     [labels |-> Range(KeyLabels(group.key)),
      props |-> SetNodeProps(group.items[i].properties, group.items[i].nodeId),
      origin |-> group.items[i].nodeId]]

RECURSIVE CreateNodeGroups(_, _, _)
\* the first k statements of the loop over nodesByLabels, applied to nodes
CreateNodeGroups(nodes, groups, k) ==
  IF k = 0 THEN nodes
  ELSE CreateNodeGroups(nodes, groups, k - 1) \o CreatedNodes(groups[k])

\* variant: the start node matched without its source_id, MATCH (a),
\* (b {source_id: rel.endId})
MatchesEndOnly(nodes, rel) ==
  LET n == Len(nodes)
      pairs == [k \in 1..(n * n) |-> << ((k - 1) \div n) + 1, ((k - 1) % n) + 1 >>]
      Hit(pr) == /\ HasSourceId(nodes[pr[2]].props)
                 /\ nodes[pr[2]].props["source_id"] = rel.endId
  IN SelectSeq(pairs, Hit)

\* variant: the end node matched without its source_id, MATCH (a {source_id:
\* rel.startId}), (b)
MatchesStartOnly(nodes, rel) ==
  LET n == Len(nodes)
      pairs == [k \in 1..(n * n) |-> << ((k - 1) \div n) + 1, ((k - 1) % n) + 1 >>]
      Hit(pr) == /\ HasSourceId(nodes[pr[1]].props)
                 /\ nodes[pr[1]].props["source_id"] = rel.startId
  IN SelectSeq(pairs, Hit)

\* MATCH (a {source_id: rel.startId}), (b {source_id: rel.endId})
Matches(nodes, rel) ==
  LET n == Len(nodes)
      pairs == [k \in 1..(n * n) |-> << ((k - 1) \div n) + 1, ((k - 1) % n) + 1 >>]
      Hit(pr) == /\ HasSourceId(nodes[pr[1]].props)
                 /\ nodes[pr[1]].props["source_id"] = rel.startId
                 /\ HasSourceId(nodes[pr[2]].props)
                 /\ nodes[pr[2]].props["source_id"] = rel.endId
  IN SelectSeq(pairs, Hit)

\* variant: the relationship created from b to a, CREATE (b)-[r:`relType`]->(a)
CreatedRelsForReversed(nodes, relType, rel) ==
  LET m == Matches(nodes, rel)
  IN [i \in 1..Len(m) |->
        [from |-> m[i][2], to |-> m[i][1], type |-> relType,
         props |-> rel.properties, origin |-> rel.idx]]

\* CALL { WITH a, b, rel CREATE (a)-[r:`relType`]->(b) SET r = rel.properties }
CreatedRelsFor(nodes, relType, rel) ==
  LET m == Matches(nodes, rel)
  IN [i \in 1..Len(m) |->
        [from |-> m[i][1], to |-> m[i][2], type |-> relType,
         props |-> rel.properties, origin |-> rel.idx]]

RECURSIVE CreatedRels(_, _, _)
\* UNWIND $rels as rel ... for one group
CreatedRels(nodes, relType, rels) ==
  IF rels = << >> THEN << >>
  ELSE CreatedRelsFor(nodes, relType, Head(rels)) \o CreatedRels(nodes, relType, Tail(rels))

RECURSIVE CreateRelGroups(_, _, _, _)
\* the first k statements of the loop over relsByType, applied to rels
CreateRelGroups(rels, nodes, groups, k) ==
  IF k = 0 THEN rels
  ELSE CreateRelGroups(rels, nodes, groups, k - 1)
         \o CreatedRels(nodes, groups[k].key, groups[k].items)

\* MATCH (n) REMOVE n.source_id
RemoveAllSourceIds(nodes) ==
  [i \in 1..Len(nodes) |->
     [labels |-> nodes[i].labels, props |-> RemoveSourceId(nodes[i].props),
      origin |-> nodes[i].origin]]

(* -------------------------------- state -------------------------------- *)

VARIABLES
  src,          \* the source database: nodes, rels, constraints, indexes
  srcChanges,   \* how many times the source was changed by others during the run
  batchSize,    \* this.batchSize
  tgtNodes,     \* the target's nodes
  tgtRels,      \* the target's relationships
  tgtSchema,    \* the target's constraints and indexes
  pc,           \* where replicateDatabase stands
  err,          \* the error replicateDatabase raised to its caller, or "none"
  progress,     \* the ReplicationProgress object
  calls,        \* the snapshots progressCallback was invoked with
  total,        \* copyNodes / copyRelationships: the counted total
  processed,    \* copyNodes / copyRelationships: let processed
  idx,          \* copySchema: position in the constraint / index loop
  schemaLog,    \* copySchema: the console line per item
  tgtLog,       \* the statements run on target sessions, with their result
  pageReqs,     \* the paging requests run on the source session
  observer,     \* what the observer did when it was last invoked
  sessions,     \* the sessions that are open
  mainPc,       \* where main stands
  results,      \* testConnections: const results = { source, target }
  connLog,      \* testConnections: what each attempt met, in order
  console,      \* the failure and success lines main has written
  exitCode,     \* the exit code of the process, -1 while it runs
  drivers,      \* the drivers (connections) that are open
  termData,     \* the ingestion script: per term, the instructor names of its sections
  instructors,  \* the ingestion script: the Instructor nodes of its database
  maxInstructorId,  \* the ingestion script: let maxInstructorId
  instructorsMap,   \* the ingestion script: const instructorsMap of the current term
  scriptPc      \* where the ingestion script stands: stage, term, position in the term

\* the state of the replicator and of the two databases
runVars == << src, srcChanges, batchSize, tgtNodes, tgtRels, tgtSchema, pc, err, progress, calls,
              total, processed, idx, schemaLog, tgtLog, pageReqs, observer >>

\* the state of main outside the replicator
mainVars == << mainPc, results, connLog, console, exitCode, drivers >>

\* the state of the ingestion script and of its database
scriptVars == << termData, instructors, maxInstructorId, instructorsMap, scriptPc >>

vars == << runVars, sessions, mainVars, scriptVars >>

\* the longest the recorded histories grow in a run that terminates
MaxCalls == 6 + MaxNodes + MaxRels + 1

\* a recorded history stops growing at MaxCalls entries (a loop that never ends)
Logged(log, entry) == IF Len(log) < MaxCalls THEN Append(log, entry) ELSE log

\* progressCallback?.(progress)
Notify(p) == Logged(calls, p)

Entry(op, arg, res) == [op |-> op, arg |-> arg, res |-> res]

(* ------------------------------ initial states ------------------------- *)

\* what an earlier, interrupted run can have left in the target
LeftoverNodes == << [labels |-> {LA}, props |-> [source_id |-> NodeIdOf(1)], origin |-> 0] >>

LeftoverRels == << [from |-> 1, to |-> 1, type |-> "R", props |-> NoProps, origin |-> 0] >>

LeftoverSchema ==
  { [name |-> << "c", 1 >>, kind |-> "constraint",
     stmt |-> ConstraintStatement(
                Named("c", << Rule("UNIQUENESS", "NODE", << "L" >>, << "p" >>) >>)[1])] }

\* graphs of every size, with no schema
GraphSources ==
  { [nodes |-> SourceNodes(n, off), rels |-> SourceRels(m, n),
     constraints |-> << >>, indexes |-> << >>] :
       n \in 1..MaxNodes, off \in 0..(Len(NodeShapes) - 1), m \in 0..MaxRels }
  \cup { [nodes |-> << >>, rels |-> << >>, constraints |-> << >>, indexes |-> << >>] }

\* every short list of schema rules, over one small graph
SchemaSources ==
  { [nodes |-> SourceNodes(1, 1), rels |-> << >>,
     constraints |-> Named("c", cs), indexes |-> << >>] :
       cs \in SeqsUpTo(ConstraintRules, MaxRules) }
  \cup
  { [nodes |-> SourceNodes(1, 1), rels |-> << >>,
     constraints |-> Named("c", cs), indexes |-> Named("i", xs)] :
       cs \in { << >>, << Rule("NODE_PROPERTY_TYPE", "NODE", << "L" >>, << "p" >>) >> },
       xs \in SeqsUpTo(IndexRules, MaxRules) }

\* the ingestion script is not part of a replication: it has not been started
ScriptNotRun ==
  /\ termData = << >>
  /\ instructors = << >>
  /\ maxInstructorId = 0
  /\ instructorsMap = << >>
  /\ scriptPc = [stage |-> "notRun", term |-> 0, pos |-> 0]

NoProgress ==
  [totalNodes |-> 0, processedNodes |-> 0, totalRelationships |-> 0,
   processedRelationships |-> 0, stage |-> "none"]

Init ==
  /\ \E leftover \in BOOLEAN :
       /\ \/ /\ src \in GraphSources
             /\ batchSize \in 1..MaxBatch
          \/ /\ src \in SchemaSources
             /\ batchSize = 2
             /\ leftover
       /\ tgtNodes = IF leftover THEN LeftoverNodes ELSE << >>
       /\ tgtRels = IF leftover THEN LeftoverRels ELSE << >>
       /\ tgtSchema = IF leftover THEN LeftoverSchema ELSE {}
  /\ pc = "start"
  /\ err = "none"
  /\ progress = NoProgress
  /\ calls = << >>
  /\ total = 0
  /\ processed = 0
  /\ idx = 0
  /\ schemaLog = << >>
  /\ tgtLog = << >>
  /\ pageReqs = << >>
  /\ observer = "returned"
  /\ sessions = {}
  /\ mainPc = "testSource"
  /\ results = [source |-> FALSE, target |-> FALSE]
  /\ connLog = << >>
  /\ console = << >>
  /\ exitCode = -1
  /\ drivers = {"source", "target"}
  /\ srcChanges = 0
  /\ ScriptNotRun

(* ------------------------------- the run ------------------------------- *)

\* variant: the catch block logs the error and does not rethrow it
RaiseSwallowed(e) ==
  /\ pc' = "complete"
  /\ err' = "none"

\* } catch (error) { console.error(...); throw error; }
Raise(e) ==
  /\ pc' = "failed"
  /\ err' = e

\* variant: relationships copied before nodes
StageAfterRelsFirst(stage) ==
  CASE stage = "clearing" -> "schema"
    [] stage = "schema" -> "relationships"
    [] stage = "relationships" -> "nodes"
    [] stage = "nodes" -> "cleanup"
    [] stage = "cleanup" -> "complete"

\* replicateDatabase runs its steps in this order; "complete" follows the last
StageAfter(stage) ==
  CASE stage = "clearing" -> "schema"
    [] stage = "schema" -> "nodes"
    [] stage = "nodes" -> "relationships"
    [] stage = "relationships" -> "cleanup"
    [] stage = "cleanup" -> "complete"

\* variant: the observer called inside a try block whose catch only logs
ObserveIsolated(next) ==
  /\ calls' = Notify(progress')
  /\ \E obs \in {"returned", "raised"} :
       /\ observer' = obs
       /\ pc' = next
       /\ err' = err

\* progressCallback?.(progress): the observer returns and the run goes on at next,
\* or it raises and the error reaches the catch block of replicateDatabase
Observe(next) ==
  /\ calls' = Notify(progress')
  /\ \E obs \in {"returned", "raised"} :
       /\ observer' = obs
       /\ IF obs = "raised"
          THEN Raise("observer")
          ELSE /\ pc' = next
               /\ err' = err

\* variant: the assignment progress.stage = 'schema' left out
EnterStageSchemaUnset(stage) ==
  /\ progress' = IF stage = "schema" THEN progress ELSE [progress EXCEPT !.stage = stage]
  /\ Observe(stage)

\* progress.stage = stage; progressCallback?.(progress)
EnterStage(stage) ==
  /\ progress' = [progress EXCEPT !.stage = stage]
  /\ Observe(stage)

\* const { totalNodes, totalRelationships } = await this.getTotalCounts();
\* let progress = {...}; progressCallback?.(progress)
GetTotalCounts ==
  /\ mainPc = "replicating"
  /\ pc = "start"
  /\ \E out \in {"ok", "error"} :
       IF out = "ok"
       THEN /\ progress' = [totalNodes |-> Len(src.nodes), processedNodes |-> 0,
                            totalRelationships |-> Len(src.rels),
                            processedRelationships |-> 0, stage |-> "clearing"]
            /\ Observe("clearing")
       ELSE /\ Raise("count")
            /\ UNCHANGED << progress, calls, observer >>
  /\ UNCHANGED << src, batchSize, tgtNodes, tgtRels, tgtSchema, total, processed,
                  idx, schemaLog, tgtLog, pageReqs, sessions >>
  /\ UNCHANGED << srcChanges, mainVars, scriptVars >>

Names(schema) == { r.name : r \in schema }

\* what clearTargetDatabase does to the target for one answer of the engine:
\* DETACH DELETE raises; or it returns and a SHOW statement raises; or they return
\* and every rule is dropped but those of kept, whose DROP raised and was logged
ClearTarget(out, kept) ==
  CASE out = "deleteFails" ->
         /\ tgtLog' = Append(tgtLog, Entry("DETACH_DELETE", << >>, "error"))
         /\ UNCHANGED << tgtNodes, tgtRels, tgtSchema >>
    [] out = "showFails" ->
         /\ tgtLog' = Append(tgtLog, Entry("DETACH_DELETE", << >>, "ok"))
         /\ tgtNodes' = << >>
         /\ tgtRels' = << >>
         /\ UNCHANGED tgtSchema
    [] out = "ok" ->
         /\ tgtLog' = tgtLog \o << Entry("DETACH_DELETE", << >>, "ok"),
                                   Entry("DROP", Names(tgtSchema \ kept), "ok") >>
         /\ tgtNodes' = << >>
         /\ tgtRels' = << >>
         /\ tgtSchema' = kept

\* variant: the catch blocks around the DROP statements rethrow
ClearRaisesOnDropFailure(out, kept) ==
  CASE out = "deleteFails" -> "detachDelete"
    [] out = "showFails" -> "show"
    [] out = "ok" -> IF kept # {} THEN "drop" ELSE "none"

\* the error clearTargetDatabase raises ("none": it returns)
ClearRaises(out, kept) ==
  CASE out = "deleteFails" -> "detachDelete"
    [] out = "showFails" -> "show"
    [] out = "ok" -> "none"

\* the answers of the engine to one run of clearTargetDatabase
ClearAnswers ==
  { << out, kept >> \in {"ok", "deleteFails", "showFails"} \X (SUBSET tgtSchema) :
      out # "ok" => kept = tgtSchema }

\* variant: clearTargetDatabase opens its session on the source driver
ClearSourceDatabase ==
  /\ pc = "clearing"
  /\ src' = [nodes |-> << >>, rels |-> << >>, constraints |-> << >>, indexes |-> << >>]
  /\ EnterStage(StageAfter("clearing"))
  /\ UNCHANGED << batchSize, tgtNodes, tgtRels, tgtSchema, tgtLog, total, processed, idx,
                  schemaLog, pageReqs, sessions >>
  /\ UNCHANGED << srcChanges, mainVars, scriptVars >>

\* await this.clearTargetDatabase(); progress.stage = 'schema'; progressCallback?.(progress)
ClearTargetDatabase ==
  /\ pc = "clearing"
  /\ \E a \in ClearAnswers :
       /\ ClearTarget(a[1], a[2])
       /\ IF ClearRaises(a[1], a[2]) = "none"
          THEN EnterStage(StageAfter("clearing"))
          ELSE /\ Raise(ClearRaises(a[1], a[2]))
               /\ UNCHANGED << progress, calls, observer >>
  /\ UNCHANGED << src, batchSize, total, processed, idx, schemaLog, pageReqs, sessions >>
  /\ UNCHANGED << srcChanges, mainVars, scriptVars >>

\* what the target answers to a creation statement: it succeeds or raises, and
\* "already exists" needs a rule of that name, or an equivalent one, to exist
Outcomes(name) ==
  IF name \in Names(tgtSchema) THEN {"exists", "error"}
  ELSE IF tgtSchema # {} THEN {"ok", "exists", "error"}
  ELSE {"ok", "error"}

\* the console line of the catch block: 'already exists' codes are told apart from the rest
Classify(out) ==
  IF out = "ok" THEN "created"
  ELSE IF out = "exists" THEN "exists"
  ELSE "failed"

\* variant: the catch block rethrows what is not an 'already exists' error
SchemaItemRethrow(stmt, kind) ==
  IF IsStatement(stmt)
  THEN \E out \in Outcomes(stmt.name) :
         /\ tgtLog' = Append(tgtLog, Entry("DDL", stmt, out))
         /\ tgtSchema' = IF out = "ok"
                         THEN tgtSchema \cup { [name |-> stmt.name, kind |-> kind, stmt |-> stmt] }
                         ELSE tgtSchema
         /\ schemaLog' = Append(schemaLog, [kind |-> kind, at |-> idx, line |-> Classify(out)])
         /\ idx' = idx + 1
         /\ IF out = "error"
            THEN /\ pc' = "failed"
                 /\ err' = "createItem"
                 /\ sessions' = sessions \ {"copySchema.source", "copySchema.target"}
            ELSE UNCHANGED << pc, err, sessions >>
  ELSE /\ schemaLog' = Append(schemaLog, [kind |-> kind, at |-> idx, line |-> "skipped"])
       /\ idx' = idx + 1
       /\ UNCHANGED << tgtLog, tgtSchema, pc, err, sessions >>

\* one pass of a copySchema loop body for the statement stmt built from its row:
\* run it if there is one; the catch block logs whatever it raises and goes on
SchemaItem(stmt, kind) ==
  /\ IF IsStatement(stmt)
     THEN \E out \in Outcomes(stmt.name) :
            /\ tgtLog' = Append(tgtLog, Entry("DDL", stmt, out))
            /\ tgtSchema' = IF out = "ok"
                            THEN tgtSchema \cup { [name |-> stmt.name, kind |-> kind, stmt |-> stmt] }
                            ELSE tgtSchema
            /\ schemaLog' = Append(schemaLog, [kind |-> kind, at |-> idx, line |-> Classify(out)])
     ELSE /\ schemaLog' = Append(schemaLog, [kind |-> kind, at |-> idx, line |-> "skipped"])
          /\ UNCHANGED << tgtLog, tgtSchema >>
  /\ idx' = idx + 1
  /\ UNCHANGED << pc, err, sessions >>

\* const sourceSession = ...; const targetSession = ...;
\* const constraints = await sourceSession.run('SHOW CONSTRAINTS')
ShowConstraints ==
  /\ pc = "schema"
  /\ \E out \in {"ok", "error"} :
       IF out = "ok"
       THEN /\ pc' = "constraints"
            /\ idx' = 1
            /\ sessions' = sessions \cup {"copySchema.source", "copySchema.target"}
            /\ err' = err
       ELSE /\ Raise("showConstraints")
            /\ UNCHANGED << idx, sessions >>
  /\ UNCHANGED << src, batchSize, tgtNodes, tgtRels, tgtSchema, progress, calls,
                  total, processed, schemaLog, tgtLog, pageReqs, observer >>
  /\ UNCHANGED << srcChanges, mainVars, scriptVars >>

\* for (const constraint of constraints.records) { try { ... } catch { ... } }
CreateConstraint ==
  /\ pc = "constraints"
  /\ idx <= Len(src.constraints)
  /\ SchemaItem(ConstraintStatement(src.constraints[idx]), "constraint")
  /\ UNCHANGED << src, batchSize, tgtNodes, tgtRels, progress, calls,
                  total, processed, pageReqs, observer >>
  /\ UNCHANGED << srcChanges, mainVars, scriptVars >>

\* const indexes = await sourceSession.run("SHOW INDEXES WHERE type <> 'CONSTRAINT'")
ShowIndexes ==
  /\ pc = "constraints"
  /\ idx > Len(src.constraints)
  /\ \E out \in {"ok", "error"} :
       IF out = "ok"
       THEN /\ pc' = "indexes"
            /\ idx' = 1
            /\ UNCHANGED << err, sessions >>
       ELSE /\ Raise("showIndexes")
            /\ sessions' = sessions \ {"copySchema.source", "copySchema.target"}
            /\ idx' = idx
  /\ UNCHANGED << src, batchSize, tgtNodes, tgtRels, tgtSchema, progress, calls,
                  total, processed, schemaLog, tgtLog, pageReqs, observer >>
  /\ UNCHANGED << srcChanges, mainVars, scriptVars >>

\* for (const index of indexes.records) { try { ... } catch { ... } }
CreateIndex ==
  /\ pc = "indexes"
  /\ idx <= Len(src.indexes)
  /\ SchemaItem(IndexStatement(src.indexes[idx]), "index")
  /\ UNCHANGED << src, batchSize, tgtNodes, tgtRels, progress, calls,
                  total, processed, pageReqs, observer >>
  /\ UNCHANGED << srcChanges, mainVars, scriptVars >>

\* finally { close both sessions }; progress.stage = 'nodes'; progressCallback?.(progress)
CopySchemaReturn ==
  /\ pc = "indexes"
  /\ idx > Len(src.indexes)
  /\ sessions' = sessions \ {"copySchema.source", "copySchema.target"}
  /\ EnterStage(StageAfter("schema"))
  /\ UNCHANGED << src, batchSize, tgtNodes, tgtRels, tgtSchema, total, processed,
                  idx, schemaLog, tgtLog, pageReqs >>
  /\ UNCHANGED << srcChanges, mainVars, scriptVars >>

\* copyNodes: const totalResult = await sourceSession.run('MATCH (n) RETURN count(n) as total')
CountNodes ==
  /\ pc = "nodes"
  /\ \E out \in {"ok", "error"} :
       IF out = "ok"
       THEN /\ total' = Len(src.nodes)
            /\ processed' = 0
            /\ pc' = "nodesLoop"
            /\ sessions' = sessions \cup {"copyNodes.source"}
            /\ err' = err
       ELSE /\ Raise("countNodes")
            /\ UNCHANGED << total, processed, sessions >>
  /\ UNCHANGED << src, batchSize, tgtNodes, tgtRels, tgtSchema, progress, calls,
                  idx, schemaLog, tgtLog, pageReqs, observer >>
  /\ UNCHANGED << srcChanges, mainVars, scriptVars >>

\* variant: the counter advanced by the configured batch size, not by the page read
AdvanceByBatchSize(done, page) == done + batchSize

\* processed += nodesData.length;  processed += relsData.length
Advance(done, page) == done + Len(page)

\* the statements createNodesInTarget runs when its failAt-th raises (0: none does)
NodeStatements(groups, failAt) ==
  [k \in 1..(IF failAt = 0 THEN Len(groups) ELSE failAt) |->
     Entry("CREATE_NODES",
           [labels |-> KeyLabels(groups[k].key), nodes |-> groups[k].items],
           IF k = failAt THEN "error" ELSE "ok")]

\* one pass of  while (processed < totalNodes) { read a page; createNodesInTarget;
\* processed += nodesData.length; progressCallback?.(processed) }
CopyNodesPage ==
  /\ pc = "nodesLoop"
  /\ processed < total
  /\ pageReqs' = Logged(pageReqs, [kind |-> "nodes", skip |-> processed,
                                   limit |-> NodeLimit(batchSize)])
  /\ \E out \in {"ok", "error"} :
       IF out = "error"
       THEN /\ Raise("readNodes")
            /\ sessions' = sessions \ {"copyNodes.source"}
            /\ UNCHANGED << tgtNodes, tgtLog, processed, progress, calls, observer >>
       ELSE LET nodesData == Page(src.nodes, processed, NodeLimit(batchSize))
                groups == IF Len(nodesData) > 0 THEN GroupNodes(nodesData) ELSE << >>
            IN \E failAt \in 0..Len(groups) :
                 /\ tgtNodes' = CreateNodeGroups(tgtNodes, groups,
                                   IF failAt = 0 THEN Len(groups) ELSE failAt - 1)
                 /\ tgtLog' = tgtLog \o NodeStatements(groups, failAt)
                 /\ IF failAt = 0
                    THEN /\ processed' = Advance(processed, nodesData)
                         /\ progress' = [progress EXCEPT !.processedNodes = processed']
                         /\ Observe(pc)
                         /\ sessions' = IF pc' = "failed"
                                         THEN sessions \ {"copyNodes.source"}
                                         ELSE sessions
                    ELSE /\ Raise("createNodes")
                         /\ sessions' = sessions \ {"copyNodes.source"}
                         /\ UNCHANGED << processed, progress, calls, observer >>
  /\ UNCHANGED << src, batchSize, tgtRels, tgtSchema, total, idx, schemaLog >>
  /\ UNCHANGED << srcChanges, mainVars, scriptVars >>

\* the loop of copyNodes ends; progress.stage = 'relationships'; progressCallback?.(progress)
CopyNodesReturn ==
  /\ pc = "nodesLoop"
  /\ ~(processed < total)
  /\ sessions' = sessions \ {"copyNodes.source"}
  /\ EnterStage(StageAfter("nodes"))
  /\ UNCHANGED << src, batchSize, tgtNodes, tgtRels, tgtSchema, total, processed,
                  idx, schemaLog, tgtLog, pageReqs >>
  /\ UNCHANGED << srcChanges, mainVars, scriptVars >>

\* copyRelationships: await sourceSession.run('MATCH ()-[r]->() RETURN count(r) as total')
CountRels ==
  /\ pc = "relationships"
  /\ \E out \in {"ok", "error"} :
       IF out = "ok"
       THEN /\ total' = Len(src.rels)
            /\ processed' = 0
            /\ pc' = "relsLoop"
            /\ sessions' = sessions \cup {"copyRelationships.source"}
            /\ err' = err
       ELSE /\ Raise("countRels")
            /\ UNCHANGED << total, processed, sessions >>
  /\ UNCHANGED << src, batchSize, tgtNodes, tgtRels, tgtSchema, progress, calls,
                  idx, schemaLog, tgtLog, pageReqs, observer >>
  /\ UNCHANGED << srcChanges, mainVars, scriptVars >>

\* the statements createRelationshipsInTarget runs when its failAt-th raises (0: none)
RelStatements(groups, failAt) ==
  [k \in 1..(IF failAt = 0 THEN Len(groups) ELSE failAt) |->
     Entry("CREATE_RELS",
           [type |-> groups[k].key, rels |-> groups[k].items],
           IF k = failAt THEN "error" ELSE "ok")]

\* one pass of  while (processed < totalRelationships) { read a page;
\* createRelationshipsInTarget; processed += relsData.length; progressCallback?.(processed) }
CopyRelsPage ==
  /\ pc = "relsLoop"
  /\ processed < total
  /\ pageReqs' = Logged(pageReqs, [kind |-> "rels", skip |-> processed,
                                   limit |-> RelLimit(batchSize)])
  /\ \E out \in {"ok", "error"} :
       IF out = "error"
       THEN /\ Raise("readRels")
            /\ sessions' = sessions \ {"copyRelationships.source"}
            /\ UNCHANGED << tgtRels, tgtLog, processed, progress, calls, observer >>
       ELSE LET relsData == Page(src.rels, processed, RelLimit(batchSize))
                groups == IF Len(relsData) > 0 THEN GroupRels(relsData) ELSE << >>
            IN \E failAt \in 0..Len(groups) :
                 /\ tgtRels' = CreateRelGroups(tgtRels, tgtNodes, groups,
                                  IF failAt = 0 THEN Len(groups) ELSE failAt - 1)
                 /\ tgtLog' = tgtLog \o RelStatements(groups, failAt)
                 /\ IF failAt = 0
                    THEN /\ processed' = Advance(processed, relsData)
                         /\ progress' = [progress EXCEPT !.processedRelationships = processed']
                         /\ Observe(pc)
                         /\ sessions' = IF pc' = "failed"
                                         THEN sessions \ {"copyRelationships.source"}
                                         ELSE sessions
                    ELSE /\ Raise("createRels")
                         /\ sessions' = sessions \ {"copyRelationships.source"}
                         /\ UNCHANGED << processed, progress, calls, observer >>
  /\ UNCHANGED << src, batchSize, tgtNodes, tgtSchema, total, idx, schemaLog >>
  /\ UNCHANGED << srcChanges, mainVars, scriptVars >>

\* the loop of copyRelationships ends; progress.stage = 'cleanup'; progressCallback?.(progress)
CopyRelsReturn ==
  /\ pc = "relsLoop"
  /\ ~(processed < total)
  /\ sessions' = sessions \ {"copyRelationships.source"}
  /\ EnterStage(StageAfter("relationships"))
  /\ UNCHANGED << src, batchSize, tgtNodes, tgtRels, tgtSchema, total, processed,
                  idx, schemaLog, tgtLog, pageReqs >>
  /\ UNCHANGED << srcChanges, mainVars, scriptVars >>

\* variant: the call of cleanup left out, the stage set to 'complete' right away
CleanupSkipped ==
  /\ pc = "cleanup"
  /\ EnterStage(StageAfter("cleanup"))
  /\ UNCHANGED << src, batchSize, tgtNodes, tgtRels, tgtSchema, total, processed,
                  idx, schemaLog, tgtLog, pageReqs, sessions >>
  /\ UNCHANGED << srcChanges, mainVars, scriptVars >>

\* await this.cleanup(); progress.stage = 'complete'; progressCallback?.(progress)
Cleanup ==
  /\ pc = "cleanup"
  /\ \E out \in {"ok", "error"} :
       IF out = "ok"
       THEN /\ tgtLog' = Append(tgtLog, Entry("REMOVE_SOURCE_ID", << >>, "ok"))
            /\ tgtNodes' = RemoveAllSourceIds(tgtNodes)
            /\ EnterStage(StageAfter("cleanup"))
       ELSE /\ tgtLog' = Append(tgtLog, Entry("REMOVE_SOURCE_ID", << >>, "error"))
            /\ Raise("removeSourceId")
            /\ UNCHANGED << tgtNodes, progress, calls, observer >>
  /\ UNCHANGED << src, batchSize, tgtRels, tgtSchema, total, processed, idx,
                  schemaLog, pageReqs, sessions >>
  /\ UNCHANGED << srcChanges, mainVars, scriptVars >>

(* --------------------------------- main -------------------------------- *)

\* what an attempt of testConnections can meet: driver.session() raises, the
\* query raises, or the round trip succeeds
ConnOutcomes == {"openFails", "runFails", "ok"}

SessionOf(side) ==
  IF side = "source" THEN "testConnections.source" ELSE "testConnections.target"

\* variant: the flag set before the query, right after the session is opened
TestConnectionFlagFirst(side, out) ==
  /\ connLog' = Append(connLog, [side |-> side, out |-> out])
  /\ results' = [results EXCEPT ![side] = (out # "openFails")]
  /\ sessions' = IF out = "runFails" THEN sessions \cup {SessionOf(side)} ELSE sessions

\* try { const session = driver.session(); await session.run('RETURN 1');
\*       await session.close(); results[side] = true } catch (error) { console.error(...) }
TestConnection(side, out) ==
  /\ connLog' = Append(connLog, [side |-> side, out |-> out])
  /\ results' = [results EXCEPT ![side] = (out = "ok")]
  /\ sessions' = IF out = "runFails" THEN sessions \cup {SessionOf(side)} ELSE sessions

\* testConnections, the attempt on the source
TestSource ==
  /\ mainPc = "testSource"
  /\ \E out \in ConnOutcomes : TestConnection("source", out)
  /\ mainPc' = "testTarget"
  /\ UNCHANGED << scriptVars, runVars, console, exitCode, drivers >>

\* testConnections, the attempt on the target; return results
TestTarget ==
  /\ mainPc = "testTarget"
  /\ \E out \in ConnOutcomes : TestConnection("target", out)
  /\ mainPc' = "tested"
  /\ UNCHANGED << scriptVars, runVars, console, exitCode, drivers >>

\* variant: Deno.exit() called without the code
DenoExitZero(code) ==
  /\ mainPc' = "exited"
  /\ exitCode' = 0
  /\ UNCHANGED drivers

\* Deno.exit(code): the process ends there; no finally block runs
DenoExit(code) ==
  /\ mainPc' = "exited"
  /\ exitCode' = code
  /\ UNCHANGED drivers

\* if (!connections.source) { ...; Deno.exit(1) } if (!connections.target) { ...; Deno.exit(1) }
\* await replicator.replicateDatabase(...)
CheckConnections ==
  /\ mainPc = "tested"
  /\ IF ~results.source
     THEN /\ console' = Append(console, "sourceFailed")
          /\ DenoExit(1)
     ELSE IF ~results.target
     THEN /\ console' = Append(console, "targetFailed")
          /\ DenoExit(1)
     ELSE /\ mainPc' = "replicating"
          /\ UNCHANGED << console, exitCode, drivers >>
  /\ UNCHANGED << scriptVars, runVars, sessions, results, connLog >>

\* replicateDatabase has returned: console.log('... completed successfully!')
ReplicationReturns ==
  /\ mainPc = "replicating"
  /\ pc = "complete"
  /\ console' = Append(console, "completed")
  /\ mainPc' = "finally"
  /\ UNCHANGED << scriptVars, runVars, sessions, results, connLog, exitCode, drivers >>

\* } catch (error) { console.error('Replication failed:', error); Deno.exit(1); }
ReplicationRaises ==
  /\ mainPc = "replicating"
  /\ pc = "failed"
  /\ console' = Append(console, "replicationFailed")
  /\ DenoExit(1)
  /\ UNCHANGED << scriptVars, runVars, sessions, results, connLog >>

\* } finally { await replicator.close(); }  then main returns and the process ends
MainFinally ==
  /\ mainPc = "finally"
  /\ drivers' = {}
  /\ mainPc' = "exited"
  /\ exitCode' = 0
  /\ UNCHANGED << scriptVars, runVars, sessions, results, connLog, console >>

Next ==
  \/ TestSource
  \/ TestTarget
  \/ CheckConnections
  \/ ReplicationReturns
  \/ ReplicationRaises
  \/ MainFinally
  \/ GetTotalCounts
  \/ ClearTargetDatabase
  \/ ShowConstraints
  \/ CreateConstraint
  \/ ShowIndexes
  \/ CreateIndex
  \/ CopySchemaReturn
  \/ CountNodes
  \/ CopyNodesPage
  \/ CopyNodesReturn
  \/ CountRels
  \/ CopyRelsPage
  \/ CopyRelsReturn
  \/ Cleanup

Spec == Init /\ [][Next]_vars

(* ---------------- clearTargetDatabase run again and again --------------- *)

\* constraints and indexes a target can hold
ClearableRules ==
  LeftoverSchema \cup
  { [name |-> << "i", 1 >>, kind |-> "index",
     stmt |-> IndexStatement(
                Named("i", << Rule("TEXT", "NODE", << "L" >>, << "p" >>) >>)[1])],
    [name |-> << "i", 2 >>, kind |-> "index",
     stmt |-> IndexStatement(
                Named("i", << Rule("BTREE", "NODE", << "L" >>, << "p" >>),
                              Rule("BTREE", "NODE", << "L" >>, << "q" >>) >>)[2])] }

\* what a target can hold when clearTargetDatabase is called
ClearableTargets ==
  { t \in [nodes : { << >>, LeftoverNodes, LeftoverNodes \o LeftoverNodes },
           rels : { << >>, LeftoverRels },
           schema : SUBSET ClearableRules] :
      t.nodes = << >> => t.rels = << >> }

InitClear ==
  /\ \E t \in ClearableTargets :
       /\ tgtNodes = t.nodes
       /\ tgtRels = t.rels
       /\ tgtSchema = t.schema
  /\ src = [nodes |-> << >>, rels |-> << >>, constraints |-> << >>, indexes |-> << >>]
  /\ batchSize = 2
  /\ pc = "clearing"
  /\ err = "none"
  /\ progress = [NoProgress EXCEPT !.stage = "clearing"]
  /\ calls = << >>
  /\ total = 0
  /\ processed = 0
  /\ idx = 0
  /\ schemaLog = << >>
  /\ tgtLog = << >>
  /\ pageReqs = << >>
  /\ observer = "returned"
  /\ sessions = {}
  /\ mainPc = "clearTargetDatabase"
  /\ results = [source |-> TRUE, target |-> TRUE]
  /\ connLog = << >>
  /\ console = << >>
  /\ exitCode = -1
  /\ drivers = {"source", "target"}
  /\ srcChanges = 0
  /\ ScriptNotRun

\* one more run of clearTargetDatabase on the target as the last run left it
ClearOnly ==
  /\ pc = "clearing"
  /\ Len(SelectSeq(tgtLog, LAMBDA e : e.op = "DETACH_DELETE")) < MaxClears
  /\ \E a \in ClearAnswers :
       /\ ClearTarget(a[1], a[2])
       /\ IF ClearRaises(a[1], a[2]) = "none"
          THEN UNCHANGED << pc, err >>
          ELSE Raise(ClearRaises(a[1], a[2]))
  /\ UNCHANGED << src, batchSize, progress, calls, total, processed, idx, schemaLog,
                  pageReqs, observer, sessions >>
  /\ UNCHANGED << srcChanges, mainVars, scriptVars >>

ClearSpec == InitClear /\ [][ClearOnly]_vars

(* ---------------------- a source that others change -------------------- *)
(* The replicator reads the source in several statements, each its own      *)
(* transaction.  Other clients of the source can commit between two of      *)
(* them: here they delete the last node with its relationships, or create   *)
(* a node with one relationship to or from an older node.                   *)

\* DETACH DELETE of the node enumerated last
SourceLoses ==
  /\ mainPc = "replicating"
  /\ pc \notin {"complete", "failed"}
  /\ srcChanges < MaxChanges
  /\ src.nodes # << >>
  /\ LET gone == src.nodes[Len(src.nodes)].nodeId
     IN src' = [src EXCEPT
                  !.nodes = SubSeq(src.nodes, 1, Len(src.nodes) - 1),
                  !.rels = SelectSeq(src.rels,
                             LAMBDA r : r.startId # gone /\ r.endId # gone)]
  /\ srcChanges' = srcChanges + 1
  /\ UNCHANGED << batchSize, tgtNodes, tgtRels, tgtSchema, pc, err, progress, calls, total,
                  processed, idx, schemaLog, tgtLog, pageReqs, observer, sessions >>
  /\ UNCHANGED << mainVars, scriptVars >>

\* CREATE (n)-[:T]->(old) or CREATE (old)-[:T]->(n), n a new node, enumerated last
SourceGains ==
  /\ mainPc = "replicating"
  /\ pc \notin {"complete", "failed"}
  /\ srcChanges < MaxChanges
  /\ src.nodes # << >>
  /\ LET new == NodeIdOf(MaxNodes + srcChanges + 1)
         old == src.nodes[1].nodeId
     IN \E outward \in BOOLEAN :
          src' = [src EXCEPT
                    !.nodes = Append(src.nodes,
                                [nodeId |-> new, labels |-> << LA >>,
                                 properties |-> [name |-> 3]]),
                    !.rels = Append(src.rels,
                               [startId |-> IF outward THEN new ELSE old,
                                endId |-> IF outward THEN old ELSE new,
                                type |-> "R", properties |-> NoProps,
                                idx |-> MaxRels + srcChanges + 1])]
  /\ srcChanges' = srcChanges + 1
  /\ UNCHANGED << batchSize, tgtNodes, tgtRels, tgtSchema, pc, err, progress, calls, total,
                  processed, idx, schemaLog, tgtLog, pageReqs, observer, sessions >>
  /\ UNCHANGED << mainVars, scriptVars >>

\* replicateDatabase is entered with both connections tested, on a small graph
\* without schema and an empty target; the pages hold one or two relationships
InitDrift ==
  /\ \E n \in 1..3, m \in 0..2 :
       src = [nodes |-> SourceNodes(n, 0), rels |-> SourceRels(m, n),
              constraints |-> << >>, indexes |-> << >>]
  /\ batchSize \in {2, 4}
  /\ tgtNodes = << >>
  /\ tgtRels = << >>
  /\ tgtSchema = {}
  /\ pc = "start"
  /\ err = "none"
  /\ progress = NoProgress
  /\ calls = << >>
  /\ total = 0
  /\ processed = 0
  /\ idx = 0
  /\ schemaLog = << >>
  /\ tgtLog = << >>
  /\ pageReqs = << >>
  /\ observer = "returned"
  /\ sessions = {}
  /\ mainPc = "replicating"
  /\ results = [source |-> TRUE, target |-> TRUE]
  /\ connLog = << [side |-> "source", out |-> "ok"], [side |-> "target", out |-> "ok"] >>
  /\ console = << >>
  /\ exitCode = -1
  /\ drivers = {"source", "target"}
  /\ srcChanges = 0
  /\ ScriptNotRun

NextDrift ==
  \/ SourceLoses
  \/ SourceGains
  \/ GetTotalCounts
  \/ ClearTargetDatabase
  \/ ShowConstraints
  \/ ShowIndexes
  \/ CopySchemaReturn
  \/ CountNodes
  \/ CopyNodesPage
  \/ CopyNodesReturn
  \/ CountRels
  \/ CopyRelsPage
  \/ CopyRelsReturn
  \/ Cleanup

DriftSpec == InitDrift /\ [][NextDrift]_vars

(* -------------------------- the ingestion script ------------------------ *)
(* src/scripts/main.ts, the part that gives Instructor nodes their ids.     *)
(* A name is a sequence of characters; an Instructor node is                *)
(* [id, name, prior], prior telling the nodes that were there at the start. *)
(* The script awaits every query before the next one: its steps do not      *)
(* interleave with one another.                                             *)

NameA == << "A" >>

NameB == << "B" >>

\* String.prototype.trim(): the white space at both ends removed
RECURSIVE TrimStart(_)
TrimStart(s) == IF s # << >> /\ Head(s) = " " THEN TrimStart(Tail(s)) ELSE s

RECURSIVE TrimEnd(_)
TrimEnd(s) ==
  IF s # << >> /\ s[Len(s)] = " " THEN TrimEnd(SubSeq(s, 1, Len(s) - 1)) ELSE s

Trim(s) == TrimEnd(TrimStart(s))

\* the instructor names of the sections of a term, in the order the loops visit them
\* (an empty name is one the script passes over)
TermSnapshots ==
  { << >>,
    << NameA, NameA \o << " " >>, NameB >>,
    << << " " >> \o NameB, NameA >>,
    << << >>, NameA >> }

Instructor(id, name, prior) == [id |-> id, name |-> name, prior |-> prior]

\* the Instructor nodes an earlier run left
PriorInstructors ==
  { << >>,
    << Instructor(1, NameA, TRUE) >>,
    << Instructor(1, << "C" >>, TRUE), Instructor(2, NameB, TRUE) >> }

InitScript ==
  /\ termData \in [1..MaxTerms -> TermSnapshots]
  /\ instructors \in PriorInstructors
  /\ maxInstructorId = 0
  /\ instructorsMap = << >>
  /\ scriptPc = [stage |-> "maxId", term |-> 0, pos |-> 0]
  /\ src = [nodes |-> << >>, rels |-> << >>, constraints |-> << >>, indexes |-> << >>]
  /\ srcChanges = 0
  /\ batchSize = 2
  /\ tgtNodes = << >>
  /\ tgtRels = << >>
  /\ tgtSchema = {}
  /\ pc = "start"
  /\ err = "none"
  /\ progress = NoProgress
  /\ calls = << >>
  /\ total = 0
  /\ processed = 0
  /\ idx = 0
  /\ schemaLog = << >>
  /\ tgtLog = << >>
  /\ pageReqs = << >>
  /\ observer = "returned"
  /\ sessions = {}
  /\ mainPc = "notRun"
  /\ results = [source |-> FALSE, target |-> FALSE]
  /\ connLog = << >>
  /\ console = << >>
  /\ exitCode = -1
  /\ drivers = {}

\* service.executeReadQuery / service.executeWriteQuery: the statement is run and its
\* records are returned, or the call raises
QueryOutcomes == {"ok", "error"}

\* COALESCE(MAX(i.id), 0)
MaxId(nodes) ==
  IF nodes = << >> THEN 0
  ELSE CHOOSE m \in { nodes[i].id : i \in 1..Len(nodes) } :
         \A i \in 1..Len(nodes) : nodes[i].id <= m

\* let maxInstructorId = 0; await service.executeReadQuery(...).then(set it).catch(log)
ReadMaxId ==
  /\ scriptPc.stage = "maxId"
  /\ \E out \in QueryOutcomes :
       maxInstructorId' = IF out = "ok" THEN MaxId(instructors) ELSE maxInstructorId
  /\ scriptPc' = [stage |-> "terms", term |-> 1, pos |-> 1]
  /\ UNCHANGED << termData, instructors, instructorsMap >>
  /\ UNCHANGED << runVars, sessions, mainVars >>

\* the name the loops stand at, as the section gives it
AtName ==
  /\ scriptPc.stage = "terms"
  /\ scriptPc.pos <= Len(termData[scriptPc.term])

RawName == termData[scriptPc.term][scriptPc.pos]

\* const instructorName = instructor.name.trim()
InstructorName == Trim(RawName)

Advanced == [scriptPc EXCEPT !.pos = scriptPc.pos + 1]

\* MATCH (i:Instructor) WHERE i.name = $name RETURN i.id
Found(name) == { i \in 1..Len(instructors) : instructors[i].name = name }

\* if (instructor.name) { if (!instructorsMap.has(instructorName)) {...} }: nothing to do
SkipInstructor ==
  /\ AtName
  /\ RawName = << >> \/ InstructorName \in DOMAIN instructorsMap
  /\ scriptPc' = Advanced
  /\ UNCHANGED << termData, instructors, maxInstructorId, instructorsMap >>
  /\ UNCHANGED << runVars, sessions, mainVars >>

\* the lookup raises: .catch((error) => { console.log(...); return null; })
LookupFails ==
  /\ AtName
  /\ RawName # << >>
  /\ InstructorName \notin DOMAIN instructorsMap
  /\ scriptPc' = Advanced
  /\ UNCHANGED << termData, instructors, maxInstructorId, instructorsMap >>
  /\ UNCHANGED << runVars, sessions, mainVars >>

\* const id = result[0]?.get("i.id") || null; if (id) instructorsMap.set(instructorName, id)
LookupFinds ==
  /\ AtName
  /\ RawName # << >>
  /\ InstructorName \notin DOMAIN instructorsMap
  /\ \E i \in Found(InstructorName) :
       /\ instructors[i].id # 0
       /\ instructorsMap' = (InstructorName :> instructors[i].id) @@ instructorsMap
  /\ scriptPc' = Advanced
  /\ UNCHANGED << termData, instructors, maxInstructorId >>
  /\ UNCHANGED << runVars, sessions, mainVars >>

\* maxInstructorId++; const newInstructorId = maxInstructorId; CREATE (i:Instructor {...})
\* .then: instructorsMap.set(instructorName, newInstructorId)   .catch: maxInstructorId--
NewInstructor(out) ==
  LET newInstructorId == maxInstructorId + 1
  IN IF out = "ok"
     THEN /\ instructors' = Append(instructors, Instructor(newInstructorId, InstructorName, FALSE))
          /\ instructorsMap' = (InstructorName :> newInstructorId) @@ instructorsMap
          /\ maxInstructorId' = newInstructorId
     ELSE /\ maxInstructorId' = (maxInstructorId + 1) - 1
          /\ UNCHANGED << instructors, instructorsMap >>

\* the lookup returns no row, or a first row without an id: the else branch creates
\* the instructor
CreateInstructor ==
  /\ AtName
  /\ RawName # << >>
  /\ InstructorName \notin DOMAIN instructorsMap
  /\ \/ Found(InstructorName) = {}
     \/ \E i \in Found(InstructorName) : instructors[i].id = 0
  /\ \E out \in QueryOutcomes : NewInstructor(out)
  /\ scriptPc' = Advanced
  /\ UNCHANGED termData
  /\ UNCHANGED << runVars, sessions, mainVars >>

\* the sections of the term are done: the next term starts with a new instructorsMap
NextTerm ==
  /\ scriptPc.stage = "terms"
  /\ scriptPc.pos > Len(termData[scriptPc.term])
  /\ scriptPc' = IF scriptPc.term < Len(termData)
                 THEN [stage |-> "terms", term |-> scriptPc.term + 1, pos |-> 1]
                 ELSE [stage |-> "done", term |-> scriptPc.term, pos |-> scriptPc.pos]
  /\ instructorsMap' = << >>
  /\ UNCHANGED << termData, instructors, maxInstructorId >>
  /\ UNCHANGED << runVars, sessions, mainVars >>

NextScript ==
  \/ ReadMaxId
  \/ SkipInstructor
  \/ LookupFails
  \/ LookupFinds
  \/ CreateInstructor
  \/ NextTerm

ScriptSpec == InitScript /\ [][NextScript]_vars

(* ------------------------------ properties ----------------------------- *)

NodeIds == { src.nodes[i].nodeId : i \in 1..Len(src.nodes) }

CopiesOfNode(id) == { k \in 1..Len(tgtNodes) : tgtNodes[k].origin = id }

CopiesOfRel(j) == { k \in 1..Len(tgtRels) : tgtRels[k].origin = j }

StageRank(stage) ==
  CASE stage = "none" -> 0
    [] stage = "clearing" -> 1
    [] stage = "schema" -> 2
    [] stage = "nodes" -> 3
    [] stage = "relationships" -> 4
    [] stage = "cleanup" -> 5
    [] stage = "complete" -> 6

LogOps(op) == SelectSeq(tgtLog, LAMBDA e : e.op = op)

\* C1. Count preservation: when replicateDatabase has returned (nothing raised),
\* the target holds exactly one copy of every source node and of every source
\* relationship, nothing else, and no target node carries source_id.
CountPreservation ==
  pc = "complete" =>
    /\ Len(tgtNodes) = Len(src.nodes)
    /\ Len(tgtRels) = Len(src.rels)
    /\ \A i \in 1..Len(src.nodes) : Cardinality(CopiesOfNode(src.nodes[i].nodeId)) = 1
    /\ \A j \in 1..Len(src.rels) : Cardinality(CopiesOfRel(src.rels[j].idx)) = 1
    /\ \A k \in 1..Len(tgtNodes) : ~HasSourceId(tgtNodes[k].props)

\* a run over several node pages and several relationship pages has returned,
\* on a target that was not empty to begin with
CountPreservationWitness ==
  /\ pc = "complete"
  /\ Len(src.nodes) >= 3
  /\ Len(src.rels) >= 2
  /\ batchSize = 2
  /\ \E i \in 1..Len(tgtLog) : tgtLog[i].op = "DROP" /\ tgtLog[i].arg # {}

StageOrderingStep ==
  /\ StageRank(progress'.stage) - StageRank(progress.stage) \in {0, 1}
  /\ Len(calls') > Len(calls) => calls' = Append(calls, progress')
  /\ progress'.stage # progress.stage =>
       /\ Len(calls') > Len(calls)
       /\ progress'.stage = "schema" =>
            /\ Len(tgtLog') >= 2
            /\ tgtLog'[Len(tgtLog') - 1] = Entry("DETACH_DELETE", << >>, "ok")
            /\ tgtLog'[Len(tgtLog')].op = "DROP"
       /\ progress'.stage = "nodes" =>
            Len(schemaLog) = Len(src.constraints) + Len(src.indexes)
       /\ progress'.stage = "relationships" =>
            /\ progress.processedNodes = Len(src.nodes)
            /\ \A id \in NodeIds : CopiesOfNode(id) # {}
       /\ progress'.stage = "cleanup" =>
            /\ progress.processedRelationships = Len(src.rels)
            /\ \A j \in 1..Len(src.rels) : CopiesOfRel(j) # {}
       /\ progress'.stage = "complete" =>
            tgtLog'[Len(tgtLog')] = Entry("REMOVE_SOURCE_ID", << >>, "ok")

\* C2. Stage ordering: the stage tag moves only from a stage to the next one of
\* clearing, schema, nodes, relationships, cleanup, complete; the observer is given
\* every new tag; a stage is entered only when the work of the one before is done;
\* and 'complete' is entered only when the cleanup statement has returned.
StageOrdering == [][StageOrderingStep]_vars

\* a run that went through every stage, with pages in both copy stages
StageOrderingWitness ==
  /\ pc = "complete"
  /\ progress.stage = "complete"
  /\ Len(calls) >= 6 + 2 + 2

Ceil(n, b) == (n + b - 1) \div b

NodePageReqs == SelectSeq(pageReqs, LAMBDA r : r.kind = "nodes")

\* the processed counts the observer was given after the pages of the nodes stage
NodeReports ==
  LET c == SelectSeq(calls, LAMBDA p : p.stage = "nodes")
  IN [k \in 1..(Len(c) - 1) |-> c[k + 1].processedNodes]

\* C3. Batch boundaries of the Node Copier: once the nodes stage is over, it has
\* issued ceil(N/b) paging requests, the k-th with SKIP (k-1)*b and LIMIT b, and
\* has reported min(k*b, N) after the k-th; b = 2, N = 5 gives 3 requests and 2, 4, 5.
BatchBoundary ==
  progress.stage \in {"relationships", "cleanup", "complete"} =>
    LET n == Len(src.nodes)
        b == batchSize
    IN /\ Len(NodePageReqs) = Ceil(n, b)
       /\ \A k \in 1..Len(NodePageReqs) :
            NodePageReqs[k] = [kind |-> "nodes", skip |-> (k - 1) * b, limit |-> b]
       /\ Len(NodeReports) = Ceil(n, b)
       /\ \A k \in 1..Len(NodeReports) : NodeReports[k] = Min(k * b, n)
       /\ (b = 2 /\ n = 5) =>
            /\ Len(NodePageReqs) = 3
            /\ NodeReports = << 2, 4, 5 >>

\* the nodes stage over 5 nodes in batches of 2 has ended
BatchBoundaryWitness ==
  /\ pc = "relationships"
  /\ batchSize = 2
  /\ Len(src.nodes) = 5
  /\ Len(NodePageReqs) = 3

\* C4. Correlation property: from the start of the nodes stage until the cleanup
\* statement, every target node was created by this run and carries source_id
\* equal to the identifier of the source node it was copied from; and when the
\* stage is 'complete' no target node carries source_id.
CorrelationLifecycle ==
  /\ progress.stage \in {"nodes", "relationships", "cleanup"} =>
       \A k \in 1..Len(tgtNodes) :
         /\ tgtNodes[k].origin \in NodeIds
         /\ HasSourceId(tgtNodes[k].props)
         /\ tgtNodes[k].props["source_id"] = tgtNodes[k].origin
  /\ progress.stage = "complete" =>
       \A k \in 1..Len(tgtNodes) : ~HasSourceId(tgtNodes[k].props)

\* before cleanup, the target holds the copy of a source node that has a property
\* named source_id of its own, with another value than its identifier
CorrelationLifecycleWitness ==
  /\ pc = "cleanup"
  /\ \E i \in 1..Len(src.nodes) :
       /\ HasSourceId(src.nodes[i].properties)
       /\ src.nodes[i].properties["source_id"] # src.nodes[i].nodeId
       /\ CopiesOfNode(src.nodes[i].nodeId) # {}

\* C5. Relationships after nodes: no node-creation statement follows a
\* relationship-creation statement; when one has been issued every source node is
\* in the target; and while the correlation property is in place every target
\* relationship joins the copies of its source relationship's endpoints.
RelationshipsAfterNodes ==
  /\ \A i, j \in 1..Len(tgtLog) :
       (tgtLog[i].op = "CREATE_RELS" /\ tgtLog[j].op = "CREATE_NODES") => j < i
  /\ LogOps("CREATE_RELS") # << >> =>
       /\ StageRank(progress.stage) >= StageRank("relationships")
       /\ \A id \in NodeIds : CopiesOfNode(id) # {}
  /\ progress.stage \in {"nodes", "relationships", "cleanup"} =>
       \A k \in 1..Len(tgtRels) :
         /\ tgtRels[k].from \in 1..Len(tgtNodes)
         /\ tgtRels[k].to \in 1..Len(tgtNodes)
         /\ \E j \in 1..Len(src.rels) :
              /\ src.rels[j].idx = tgtRels[k].origin
              /\ tgtNodes[tgtRels[k].from].props["source_id"] = src.rels[j].startId
              /\ tgtNodes[tgtRels[k].to].props["source_id"] = src.rels[j].endId

\* relationship statements have been issued after node statements of several pages
RelationshipsAfterNodesWitness ==
  /\ pc = "relsLoop"
  /\ Len(tgtRels) >= 2
  /\ Len(LogOps("CREATE_NODES")) >= 2
  /\ Len(LogOps("CREATE_RELS")) >= 1

RECURSIVE RowsIn(_)
\* the rows passed to the statements of a list of log entries
RowsIn(entries) ==
  IF entries = << >> THEN 0
  ELSE (IF Head(entries).op = "CREATE_NODES" THEN Len(Head(entries).arg.nodes)
        ELSE Len(Head(entries).arg.rels)) + RowsIn(Tail(entries))

OkOps(op) == SelectSeq(tgtLog, LAMBDA e : e.op = op /\ e.res = "ok")

\* C6. A bulk write that raises aborts the run: the raising statement is the last
\* one run on the target and the last page requested, replicateDatabase has raised
\* that statement's error, the stage tag stays where it was and is never
\* 'complete', cleanup has not run, and what the earlier statements wrote is still
\* in the target, every node with its source_id.
WriteFailureAborts ==
  /\ \A i \in 1..Len(tgtLog) :
       (tgtLog[i].op \in {"CREATE_NODES", "CREATE_RELS"} /\ tgtLog[i].res = "error") =>
         /\ i = Len(tgtLog)
         /\ pc = "failed"
         /\ err = (IF tgtLog[i].op = "CREATE_NODES" THEN "createNodes" ELSE "createRels")
  /\ err \in {"createNodes", "createRels"} =>
       /\ pc = "failed"
       /\ tgtLog # << >>
       /\ tgtLog[Len(tgtLog)].res = "error"
       /\ tgtLog[Len(tgtLog)].op =
            (IF err = "createNodes" THEN "CREATE_NODES" ELSE "CREATE_RELS")
       /\ progress.stage = (IF err = "createNodes" THEN "nodes" ELSE "relationships")
       /\ \A c \in 1..Len(calls) : calls[c].stage # "complete"
       /\ LogOps("REMOVE_SOURCE_ID") = << >>
       /\ pageReqs # << >>
       /\ pageReqs[Len(pageReqs)].skip = processed
       /\ Len(tgtNodes) = RowsIn(OkOps("CREATE_NODES"))
       /\ Len(tgtRels) = RowsIn(OkOps("CREATE_RELS"))
       /\ \A k \in 1..Len(tgtNodes) : HasSourceId(tgtNodes[k].props)

\* a node statement raised after earlier node statements had written nodes
WriteFailureAbortsWitness ==
  /\ err = "createNodes"
  /\ Len(tgtNodes) >= 2
  /\ Len(LogOps("CREATE_NODES")) >= 3

\* the rows of SHOW CONSTRAINTS followed by the rows of SHOW INDEXES
SchemaItems ==
  [k \in 1..(Len(src.constraints) + Len(src.indexes)) |->
     IF k <= Len(src.constraints)
     THEN [kind |-> "constraint", at |-> k, rule |-> src.constraints[k]]
     ELSE [kind |-> "index", at |-> k - Len(src.constraints),
           rule |-> src.indexes[k - Len(src.constraints)]]]

\* the kinds copySchema has a branch for
Recognized(item) ==
  IF item.kind = "constraint"
  THEN \/ item.rule.type = "UNIQUENESS" /\ item.rule.entityType \in {"NODE", "RELATIONSHIP"}
       \/ item.rule.type \in {"NODE_PROPERTY_EXISTENCE", "EXISTENCE",
                              "RELATIONSHIP_PROPERTY_EXISTENCE", "NODE_KEY"}
  ELSE item.rule.type \in {"BTREE", "TEXT", "FULLTEXT"}

\* the items the loops of copySchema have gone through so far
Processed == SubSeq(SchemaItems, 1, Len(schemaLog))

LineOf(res) ==
  CASE res = "ok" -> "created" [] res = "exists" -> "exists" [] res = "error" -> "failed"

\* C7. The schema stage always completes: the items are gone through in order,
\* a statement is run for each item that has one whatever the earlier ones
\* answered, 'already exists' and other errors are logged and never raised, the
\* stage can always take its next step, and when the nodes stage starts every item
\* has been gone through.
SchemaStageCompletes ==
  LET items == SchemaItems
      ddl == LogOps("DDL")
      attempted == SelectSeq(SubSeq(items, 1, Len(schemaLog)), Recognized)
      lines == SelectSeq(schemaLog, LAMBDA l : l.line # "skipped")
  IN /\ Len(schemaLog) <= Len(items)
     /\ \A k \in 1..Len(schemaLog) :
          /\ schemaLog[k].kind = items[k].kind
          /\ schemaLog[k].at = items[k].at
     /\ Len(ddl) = Len(attempted)
     /\ Len(lines) = Len(ddl)
     /\ \A k \in 1..Len(ddl) :
          /\ ddl[k].arg.name = attempted[k].rule.name
          /\ lines[k].line = LineOf(ddl[k].res)
          /\ ddl[k].res = "ok" => \E r \in tgtSchema : r.stmt = ddl[k].arg
     /\ pc \in {"constraints", "indexes"} =>
          /\ err = "none"
          /\ ENABLED (CreateConstraint \/ ShowIndexes \/ CreateIndex \/ CopySchemaReturn)
     /\ StageRank(progress.stage) >= StageRank("nodes") => Len(schemaLog) = Len(items)
     /\ (pc = "failed" /\ progress.stage = "schema") =>
          err \in {"showConstraints", "showIndexes", "observer"}
     /\ (pc = "failed" /\ schemaLog # << >> /\ progress.stage = "schema") =>
          err = "showIndexes"

\* the nodes stage has started after one creation answered 'already exists' and
\* another raised some other error
SchemaStageCompletesWitness ==
  /\ progress.stage = "nodes"
  /\ \E i, j \in 1..Len(tgtLog) :
       /\ i < j
       /\ tgtLog[i].op = "DDL" /\ tgtLog[i].res \in {"exists", "error"}
       /\ tgtLog[j].op = "DDL" /\ tgtLog[j].res \in {"exists", "error"}
       /\ tgtLog[i].res # tgtLog[j].res

PropNames(stmt) == [i \in 1..Len(stmt.props) |-> stmt.props[i][2]]

\* a row of the mapping table: the statement the source constraint c is to yield
ConstraintRow(c, stmt) ==
  /\ stmt.verb = "CREATE CONSTRAINT"
  /\ stmt.name = c.name
  /\ stmt.scope = c.entityType
  /\ stmt.labels = << c.labelsOrTypes[1] >>
  /\ \A i \in 1..Len(stmt.props) :
       stmt.props[i][1] = (IF c.entityType = "NODE" THEN "n" ELSE "r")
  /\ CASE c.type = "UNIQUENESS" ->
            /\ stmt.req = "IS UNIQUE"
            /\ PropNames(stmt) = c.properties
       [] c.type \in {"NODE_PROPERTY_EXISTENCE", "EXISTENCE"} ->
            /\ stmt.scope = "NODE"
            /\ stmt.req = "IS NOT NULL"
            /\ PropNames(stmt) = << c.properties[1] >>
       [] c.type = "RELATIONSHIP_PROPERTY_EXISTENCE" ->
            /\ stmt.scope = "RELATIONSHIP"
            /\ stmt.req = "IS NOT NULL"
            /\ PropNames(stmt) = << c.properties[1] >>
       [] c.type = "NODE_KEY" ->
            /\ stmt.scope = "NODE"
            /\ stmt.req = "IS NODE KEY"
            /\ PropNames(stmt) = c.properties
       [] OTHER -> FALSE

ConstraintDDL == SelectSeq(tgtLog, LAMBDA e : e.op = "DDL" /\ e.arg.verb = "CREATE CONSTRAINT")

\* C8. Constraint translation: every constraint statement run on the target is the
\* table's row for a source constraint of that name, and every source constraint of
\* a kind in the table that the loop has gone through had its statement run.
ConstraintTranslation ==
  LET ddl == ConstraintDDL
  IN /\ \A k \in 1..Len(ddl) :
          \E i \in 1..Len(src.constraints) :
            /\ src.constraints[i].name = ddl[k].arg.name
            /\ ConstraintRow(src.constraints[i], ddl[k].arg)
     /\ \A k \in 1..Len(schemaLog) :
          (schemaLog[k].kind = "constraint" /\
           src.constraints[schemaLog[k].at].type \in
             {"UNIQUENESS", "NODE_PROPERTY_EXISTENCE", "RELATIONSHIP_PROPERTY_EXISTENCE",
              "NODE_KEY"}) =>
            \E d \in 1..Len(ddl) : ddl[d].arg.name = src.constraints[schemaLog[k].at].name

\* a node key and a uniqueness constraint on a relationship type have been translated
ConstraintTranslationWitness ==
  \E i, j \in 1..Len(ConstraintDDL) :
    /\ ConstraintDDL[i].arg.req = "IS NODE KEY"
    /\ ConstraintDDL[j].arg.req = "IS UNIQUE"
    /\ ConstraintDDL[j].arg.scope = "RELATIONSHIP"
    /\ Len(ConstraintDDL[j].arg.props) = 2

IndexDDL(verb, name) ==
  SelectSeq(tgtLog, LAMBDA e : e.op = "DDL" /\ e.arg.verb = verb /\ e.arg.name = name)

\* C9. Index translation, as claimed: every source index the loop has gone through
\* of range/default kind had a plain index statement run over its properties, every
\* text index a text index statement, and every full-text index a full-text index
\* statement over all its labels/types and properties, under its own name.
IndexTranslation ==
  \A k \in 1..Len(schemaLog) :
    schemaLog[k].kind = "index" =>
      LET x == src.indexes[schemaLog[k].at]
      IN /\ x.type \in {"RANGE", "BTREE"} =>
              \E e \in Range(IndexDDL("CREATE INDEX", x.name)) :
                PropNames(e.arg) = x.properties
         /\ x.type = "TEXT" =>
              \E e \in Range(IndexDDL("CREATE TEXT INDEX", x.name)) :
                PropNames(e.arg) = x.properties
         /\ x.type = "FULLTEXT" =>
              \E e \in Range(IndexDDL("CREATE FULLTEXT INDEX", x.name)) :
                /\ e.arg.labels = x.labelsOrTypes
                /\ PropNames(e.arg) = x.properties

\* C10. Graceful skip: an item of a kind copySchema has no branch for gets the
\* 'skipped' line and no statement (the statements run are exactly those of the
\* recognised items), the stage does not raise, and once the stage is over every
\* recognised item after it has had its statement run, and exists in the target
\* when the statement succeeded.
GracefulSkip ==
  LET ddl == LogOps("DDL")
      items == SchemaItems
      over == StageRank(progress.stage) >= StageRank("nodes")
  IN /\ Len(ddl) = Len(SelectSeq(Processed, Recognized))
     /\ \A k \in 1..Len(schemaLog) :
          ~Recognized(items[k]) =>
            /\ schemaLog[k].line = "skipped"
            /\ \A e \in Range(ddl) : e.arg.name # items[k].rule.name
            /\ ~(pc = "failed" /\ progress.stage = "schema" /\ err \notin {"showIndexes"})
            /\ over =>
                 \A j \in (k + 1)..Len(items) :
                   Recognized(items[j]) =>
                     \E e \in Range(ddl) :
                       /\ e.arg.name = items[j].rule.name
                       /\ e.res = "ok" => \E r \in tgtSchema : r.stmt = e.arg

\* an index of an unrecognised kind was skipped and the index after it was created
GracefulSkipWitness ==
  /\ progress.stage = "nodes"
  /\ \E k \in 1..Len(schemaLog) :
       /\ k < Len(schemaLog)
       /\ schemaLog[k].kind = "index"
       /\ schemaLog[k].line = "skipped"
       /\ schemaLog[k + 1].kind = "index"
       /\ schemaLog[k + 1].line = "created"

\* the label set of a source node, whatever the order its labels are stored in
LabelSet(node) == Range(node.labels)

\* the statements of the bulk-create loop that received the node nodeId
StatementsWith(stmts, nodeId) ==
  { k \in 1..Len(stmts) :
      \E r \in 1..Len(stmts[k].arg.nodes) : stmts[k].arg.nodes[r].nodeId = nodeId }

LabelGroupingStep ==
  (pc = "nodesLoop" /\ processed' > processed) =>
    LET batch == Page(src.nodes, processed, NodeLimit(batchSize))
        stmts == SubSeq(tgtLog', Len(tgtLog) + 1, Len(tgtLog'))
        created == SubSeq(tgtNodes', Len(tgtNodes) + 1, Len(tgtNodes'))
        B == 1..Len(batch)
    IN /\ \A k \in 1..Len(stmts) : stmts[k].op = "CREATE_NODES"
       /\ Len(stmts) = Cardinality({ LabelSet(batch[i]) : i \in B })
       /\ \A i \in B : Cardinality(StatementsWith(stmts, batch[i].nodeId)) = 1
       /\ \A i, j \in B :
            (StatementsWith(stmts, batch[i].nodeId) = StatementsWith(stmts, batch[j].nodeId))
              <=> (LabelSet(batch[i]) = LabelSet(batch[j]))
       /\ \A i \in B :
            /\ Cardinality({ k \in 1..Len(created) : created[k].origin = batch[i].nodeId }) = 1
            /\ \A k \in 1..Len(created) :
                 created[k].origin = batch[i].nodeId => created[k].labels = LabelSet(batch[i])

\* C11. Label-set grouping, as claimed: for every batch whose statements all
\* returned, there is one bulk-create statement per distinct label set, two nodes of
\* the batch are in the same statement exactly when their label sets are equal as
\* sets, every node is in exactly one statement and is created once with exactly
\* its own labels (none, for a node without labels).
LabelGrouping == [][LabelGroupingStep]_vars

\* the target nodes whose source_id is id
Resolving(id) ==
  { k \in 1..Len(tgtNodes) :
      HasSourceId(tgtNodes[k].props) /\ tgtNodes[k].props["source_id"] = id }

\* C12. Endpoint resolution: while the Relationship Copier works, every source
\* relationship of the pages it has processed whose start and end identifiers are
\* the source_id of copied nodes (a self-loop included) has exactly one copy, from
\* the node carrying the start identifier to the node carrying the end identifier,
\* with the source's type and property map; and no relationship has two copies.
EndpointResolution ==
  progress.stage \in {"relationships", "cleanup"} =>
    /\ \A j \in 1..Len(src.rels) : Cardinality(CopiesOfRel(src.rels[j].idx)) <= 1
    /\ \A j \in 1..progress.processedRelationships :
         LET rel == src.rels[j]
             copies == CopiesOfRel(rel.idx)
         IN (Resolving(rel.startId) # {} /\ Resolving(rel.endId) # {}) =>
              /\ Cardinality(copies) = 1
              /\ \A k \in copies :
                   /\ Resolving(rel.startId) = { tgtRels[k].from }
                   /\ Resolving(rel.endId) = { tgtRels[k].to }
                   /\ tgtRels[k].type = rel.type
                   /\ tgtRels[k].props = rel.properties

\* the relationships of a one-node source, self-loops of both types, were copied
EndpointResolutionWitness ==
  /\ pc = "cleanup"
  /\ Len(src.nodes) = 1
  /\ Len(tgtRels) >= 2
  /\ \E k \in 1..Len(tgtRels) :
       /\ tgtRels[k].from = tgtRels[k].to
       /\ tgtRels[k].props # NoProps

\* the positions in the target's log of the statement removing source_id
Removals == { i \in 1..Len(tgtLog) : tgtLog[i].op = "REMOVE_SOURCE_ID" }

ResultsMatch ==
  /\ Len(connLog) = 2
  /\ connLog[1].side = "source"
  /\ connLog[2].side = "target"
  /\ results.source = (connLog[1].out = "ok")
  /\ results.target = (connLog[2].out = "ok")

TestConnectionsStep ==
  /\ mainPc \in {"testSource", "testTarget"} =>
       /\ mainPc' = (IF mainPc = "testSource" THEN "testTarget" ELSE "tested")
       /\ Len(connLog') = Len(connLog) + 1
       /\ exitCode' = -1
       /\ UNCHANGED << src, tgtNodes, tgtRels, tgtSchema, tgtLog, pc, err >>
  /\ mainPc' \notin {"testSource", "testTarget"} => ResultsMatch'

\* C14. testConnections never raises: whatever the source attempt met (the session
\* could not be opened, the query raised, or it succeeded) the target attempt is
\* made, whatever that one met the operation returns (the process has not ended,
\* nothing was raised), each flag is true exactly when its round trip succeeded,
\* and no step of it changes the graphs or runs a statement on the target.
TestConnectionsTotal == [][TestConnectionsStep]_vars

\* it has returned after the source query raised and the target round trip succeeded
TestConnectionsTotalWitness ==
  /\ mainPc = "tested"
  /\ connLog[1].out = "runFails"
  /\ connLog[2].out = "ok"
  /\ results = [source |-> FALSE, target |-> TRUE]

\* the positions between operations of the replicator
BetweenOperations ==
  /\ mainPc \notin {"testSource", "testTarget"}
  /\ pc \in {"start", "clearing", "schema", "nodes", "relationships", "cleanup",
             "complete", "failed"}

\* C15. Session release, as claimed: whenever an operation of the replicator has
\* returned or raised, testConnections included, no session is open.
SessionsReleased == BetweenOperations => sessions = {}

\* C16. Connection cleanup on failure, as claimed: when the process has ended
\* because a connection test failed or replicateDatabase raised, the failure was
\* reported and both connections were closed.
ConnectionCleanupOnFailure ==
  (mainPc = "exited" /\ (~results.source \/ ~results.target \/ pc = "failed")) =>
    /\ console # << >>
    /\ drivers = {}

\* C17. Exit behaviour of main: the process ends with 1 when the source test
\* failed, the target test failed or replicateDatabase raised, and with 0 when it
\* returned; and when a test failed replicateDatabase was never started: nothing
\* was counted, no statement ran on the target and the target is as it was.
ExitBehaviour ==
  LET testFailed == ~results.source \/ ~results.target
  IN /\ mainPc # "exited" => exitCode = -1
     /\ mainPc = "exited" =>
          /\ exitCode \in {0, 1}
          /\ exitCode = 1 <=> (testFailed \/ pc = "failed")
          /\ exitCode = 0 <=> (~testFailed /\ pc = "complete")
     /\ mainPc \in {"replicating", "finally"} => ~testFailed
     /\ (mainPc \in {"tested", "exited"} /\ testFailed) =>
          /\ pc = "start"
          /\ tgtLog = << >>
          /\ calls = << >>
          /\ pageReqs = << >>
          /\ tgtNodes \in {<< >>, LeftoverNodes}
          /\ tgtNodes = LeftoverNodes <=> tgtSchema = LeftoverSchema

\* the process has ended with 1 on a failed target test, the target's earlier
\* content untouched
ExitBehaviourWitness ==
  /\ mainPc = "exited"
  /\ exitCode = 1
  /\ results = [source |-> TRUE, target |-> FALSE]
  /\ console = << "targetFailed" >>
  /\ tgtNodes = LeftoverNodes

\* the target holds what the statements run so far have written, nothing undone
PartialState ==
  /\ progress.stage = "clearing" => tgtLog = << >>
  /\ StageRank(progress.stage) >= StageRank("schema") =>
       /\ Len(tgtNodes) = RowsIn(OkOps("CREATE_NODES"))
       /\ Len(tgtRels) = RowsIn(OkOps("CREATE_RELS"))
       /\ Len(tgtNodes) >= progress.processedNodes
       /\ Len(tgtRels) >= progress.processedRelationships
  /\ progress.stage # "complete" =>
       /\ Removals = {}
       /\ \A k \in 1..Len(tgtNodes) : HasSourceId(tgtNodes[k].props)

ObserverStep ==
  /\ (observer = "returned" /\ observer' = "raised") =>
       /\ pc' = "failed"
       /\ err' = "observer"
       /\ Len(calls) < MaxCalls => calls' = Append(calls, progress')
       /\ SubSeq(tgtLog', 1, Len(tgtLog)) = tgtLog
       /\ PartialState'
  /\ observer = "raised" =>
       /\ pc = "failed"
       /\ ~ENABLED (GetTotalCounts \/ ClearTargetDatabase \/ ShowConstraints
                      \/ CopyNodesPage \/ CopyNodesReturn \/ CopyRelsPage
                      \/ CopyRelsReturn \/ Cleanup)
       /\ UNCHANGED << scriptVars, runVars, sessions >>

\* C18. Observer errors propagate: when the observer raises, at a stage transition
\* or after a page, replicateDatabase raises that error; the invocation that raised
\* is the last one, no statement, page or stage follows it, and the target keeps
\* what had been written until then (before 'complete', source_id included).
ObserverErrorsPropagate == [][ObserverStep]_vars

\* the observer raised after the second page of nodes, and main has ended on it
ObserverErrorsPropagateWitness ==
  /\ observer = "raised"
  /\ progress.stage = "nodes"
  /\ progress.processedNodes >= 3
  /\ Len(tgtNodes) = progress.processedNodes
  /\ Len(tgtNodes) < Len(src.nodes)
  /\ mainPc = "exited"

\* the runs of clearTargetDatabase so far, by their first statement
ClearRuns == LogOps("DETACH_DELETE")

\* C19. Idempotent clearing: a run of the clearing stage that returns leaves no
\* node and no relationship, on whatever target and however many times in a row;
\* on the target a run has left, empty, the next run can return as well; and the
\* stage raises only when DETACH DELETE or a SHOW statement raises, never because
\* a DROP failed (the rule is then still there).
IdempotentClearing ==
  /\ (tgtLog # << >> /\ tgtLog[Len(tgtLog)].op = "DROP") =>
       /\ pc = "clearing"
       /\ tgtNodes = << >>
       /\ tgtRels = << >>
       /\ Len(tgtLog) = 2 * Len(ClearRuns)
  /\ (pc = "clearing" /\ Len(ClearRuns) < MaxClears) =>
       ENABLED (ClearOnly /\ pc' = "clearing" /\ tgtNodes' = << >> /\ tgtRels' = << >>)
  /\ pc = "failed" =>
       /\ err \in {"detachDelete", "show"}
       /\ tgtLog[Len(tgtLog)].op = "DETACH_DELETE"
       /\ err = "detachDelete" <=> tgtLog[Len(tgtLog)].res = "error"
  /\ pc \in {"clearing", "failed"}

\* two runs in a row have returned: the first dropped a rule and failed to drop
\* another; the second, on the emptied target, failed to drop that rule again
IdempotentClearingWitness ==
  /\ pc = "clearing"
  /\ Len(ClearRuns) = 2
  /\ Len(tgtLog) = 4
  /\ tgtLog[2].arg # {}
  /\ tgtLog[4].arg = {}
  /\ tgtSchema # {}
  /\ tgtNodes = << >>

RelPagingStep ==
  /\ (pc = "relsLoop" /\ processed < total) =>
       /\ Len(pageReqs') = Len(pageReqs) + 1
       /\ LET req == pageReqs'[Len(pageReqs')]
          IN /\ req.kind = "rels"
             /\ req.skip = processed
             /\ 2 * req.limit \in {batchSize - 1, batchSize}
       /\ pc' = "relsLoop" =>
            /\ processed' > processed
            /\ progress'.processedRelationships = processed'
  /\ progress'.stage \in {"cleanup", "complete"} =>
       progress'.processedRelationships = Len(src.rels)

\* C20. Relationship paging, as claimed: every pass of the loop of
\* copyRelationships requests SKIP = the relationships processed so far and
\* LIMIT = batchSize / 2 (its whole part); the loop terminates, stated by its
\* variant: every pass that stays in the loop has processed more relationships than
\* before (over a static source a pass that has not repeats for ever); and once the
\* loop is left the last reported count is M.
RelPagingTerminates == [][RelPagingStep]_vars

(* ------------------------------------------------------------------------- *)
(* C23  Progress snapshots.  Over the snapshots the observer receives in one *)
(* run on a static source: processedNodes and processedRelationships never   *)
(* decrease; 0 <= processedNodes <= totalNodes and 0 <=                      *)
(* processedRelationships <= totalRelationships; processedRelationships is 0 *)
(* in every snapshot tagged clearing, schema or nodes; processedNodes equals *)
(* totalNodes in every snapshot from the first one tagged 'relationships'    *)
(* onward; and the two totals are those of the first snapshot throughout.    *)
(* ------------------------------------------------------------------------- *)
ProgressSnapshots ==
  \A j \in 1..Len(calls) :
    /\ \A i \in 1..j :
         /\ calls[i].processedNodes <= calls[j].processedNodes
         /\ calls[i].processedRelationships <= calls[j].processedRelationships
    /\ 0 <= calls[j].processedNodes
    /\ calls[j].processedNodes <= calls[j].totalNodes
    /\ 0 <= calls[j].processedRelationships
    /\ calls[j].processedRelationships <= calls[j].totalRelationships
    /\ calls[j].stage \in {"clearing", "schema", "nodes"}
         => calls[j].processedRelationships = 0
    /\ (\E i \in 1..j : calls[i].stage = "relationships")
         => calls[j].processedNodes = calls[j].totalNodes
    /\ calls[j].totalNodes = calls[1].totalNodes
    /\ calls[j].totalRelationships = calls[1].totalRelationships

\* a completed run whose observer saw both counters move, in more than one step each
ProgressSnapshotsWitness ==
  /\ pc = "complete"
  /\ \E i, j \in 1..Len(calls) :
       /\ i < j
       /\ 0 < calls[i].processedNodes
       /\ calls[i].processedNodes < calls[j].processedNodes
  /\ \E i, j \in 1..Len(calls) :
       /\ i < j
       /\ 0 < calls[i].processedRelationships
       /\ calls[i].processedRelationships < calls[j].processedRelationships

\* the source nodes a target node was copied from
SourcesOf(node) == { i \in 1..Len(src.nodes) : src.nodes[i].nodeId = node.origin }

(* ------------------------------------------------------------------------- *)
(* C24  Property round-trip.  After a successful run every target node has   *)
(* exactly the property map of the source node it was copied from: the same  *)
(* property names with the same values, nothing added and nothing lost, also *)
(* when the source node itself has a property named source_id.               *)
(* ------------------------------------------------------------------------- *)
PropertyRoundTrip ==
  pc = "complete" =>
    \A k \in 1..Len(tgtNodes) :
      /\ SourcesOf(tgtNodes[k]) # {}
      /\ \A i \in SourcesOf(tgtNodes[k]) : tgtNodes[k].props = src.nodes[i].properties

\* the statements that write: each is logged when it is run on a target session
WriteOps == {"DETACH_DELETE", "DROP", "DDL", "CREATE_NODES", "CREATE_RELS", "REMOVE_SOURCE_ID"}

\* a step of replicateDatabase or testConnections leaves the source graph and schema
\* as they were, whether it returns or raises; what it changes in the target graph or
\* schema it changes by a statement run on a target session; and what it asks of the
\* source by pages is a read of nodes or of relationships
SourceReadOnlyStep ==
  /\ src' = src
  /\ (tgtNodes' # tgtNodes \/ tgtRels' # tgtRels \/ tgtSchema' # tgtSchema)
       => /\ Len(tgtLog') > Len(tgtLog)
          /\ \A i \in (Len(tgtLog) + 1)..Len(tgtLog') : tgtLog'[i].op \in WriteOps
  /\ \A i \in 1..Len(pageReqs') : pageReqs'[i].kind \in {"nodes", "rels"}

(* ------------------------------------------------------------------------- *)
(* C25  The source is read-only.  In every run of replicateDatabase and      *)
(* testConnections, successful or failed, no step changes the source graph   *)
(* or the source schema: the statements run on source sessions are reads     *)
(* (counts, SHOW CONSTRAINTS, SHOW INDEXES, paged reads), and every create,  *)
(* drop, delete and property removal is a statement run on a target session. *)
(* ------------------------------------------------------------------------- *)
SourceReadOnly == [][SourceReadOnlyStep]_vars

\* a run that cleared a used target, copied nodes and relationships, removed the
\* correlation property and completed, the source being as it was at the start
SourceReadOnlyWitness ==
  /\ pc = "complete"
  /\ src.rels # << >>
  /\ Len(tgtRels) = Len(src.rels)
  /\ Len(tgtNodes) = Len(src.nodes)
  /\ \A op \in {"DETACH_DELETE", "DROP", "CREATE_NODES", "CREATE_RELS", "REMOVE_SOURCE_ID"} :
       LogOps(op) # << >>

\* a pass of a copy loop that stays in the loop, the source being left alone meanwhile
LoopPass ==
  /\ pc \in {"nodesLoop", "relsLoop"}
  /\ pc' = pc
  /\ src' = src

(* ------------------------------------------------------------------------- *)
(* C21  The counted totals are advisory.  When the source gains or loses     *)
(* nodes or relationships after a count was taken, so that a page can come   *)
(* back short or empty while the processed count is below the counted total, *)
(* the run still terminates: every pass of a copy loop that stays in the     *)
(* loop brings the processed count closer to the end of the loop, so no pass *)
(* leaves the run where it was.                                              *)
(* ------------------------------------------------------------------------- *)
DriftTerminates == [][LoopPass => processed' > processed]_vars

\* the copies of source relationship j that the step creates
FreshCopies(j) ==
  { k \in (Len(tgtRels) + 1)..Len(tgtRels') : tgtRels'[k].origin = j }

\* the relationships of a page whose start or end identifier no target node carries
Unresolvable(batch) ==
  { i \in 1..Len(batch) :
      Resolving(batch[i].startId) = {} \/ Resolving(batch[i].endId) = {} }

\* a pass of the relationship loop whose page was written and counted
UnresolvableStep ==
  (pc = "relsLoop" /\ processed' # processed) =>
    LET batch == Page(src.rels, processed, RelLimit(batchSize))
    IN /\ \A i \in Unresolvable(batch) : FreshCopies(batch[i].idx) = {}
       /\ \A i \in (1..Len(batch)) \ Unresolvable(batch) :
            Cardinality(FreshCopies(batch[i].idx)) = 1
       /\ Len(tgtRels') = Len(tgtRels) + Len(batch) - Cardinality(Unresolvable(batch))
       /\ \A i \in (Len(tgtLog) + 1)..Len(tgtLog') : tgtLog'[i].res = "ok"
       /\ processed' = processed + Len(batch)
       /\ progress'.processedRelationships = processed'
       /\ calls' = Notify(progress')
       /\ \/ pc' = "relsLoop" /\ err' = err
          \/ pc' = "failed" /\ err' = "observer"

(* ------------------------------------------------------------------------- *)
(* C22  Unresolvable endpoints are a silent no-op.  A relationship of a page *)
(* whose start or end identifier is the source_id of no target node gets no  *)
(* copy and raises no error; it is counted in the processed-relationship     *)
(* count reported to the observer; the other relationships of the page get   *)
(* their copy; and the run goes on (to cleanup and 'complete', see the       *)
(* witness).                                                                 *)
(* ------------------------------------------------------------------------- *)
UnresolvableEndpoints == [][UnresolvableStep]_vars

\* a completed run that read two relationships in one page: the first was copied,
\* the second, to or from a node created after the node count, was not, and it is
\* counted
UnresolvableEndpointsWitness ==
  /\ pc = "complete"
  /\ batchSize = 4
  /\ Len(src.rels) = 2
  /\ Len(SelectSeq(pageReqs, LAMBDA r : r.kind = "rels")) = 1
  /\ CopiesOfRel(src.rels[1].idx) # {}
  /\ CopiesOfRel(src.rels[2].idx) = {}
  /\ CopiesOfNode(src.rels[2].startId) = {} \/ CopiesOfNode(src.rels[2].endId) = {}
  /\ progress.processedRelationships = 2
  /\ \A i \in 1..Len(tgtLog) : tgtLog[i].res = "ok"

\* the Instructor nodes the run created
Created == { i \in 1..Len(instructors) : ~instructors[i].prior }

(* ------------------------------------------------------------------------- *)
(* C26  Instructor de-duplication.  Over a run of the ingestion script, all  *)
(* terms together: for every trimmed instructor name at most one Instructor  *)
(* node is created; the ids of the created instructors are pairwise distinct *)
(* and differ from the id of every Instructor that was there before the run; *)
(* whichever lookups and creations fail, and also when the initial read of   *)
(* the greatest id fails.                                                    *)
(* ------------------------------------------------------------------------- *)
InstructorDeduplication ==
  /\ \A i, j \in Created :
       i # j => /\ instructors[i].name # instructors[j].name
                /\ instructors[i].id # instructors[j].id
  /\ \A i \in Created :
       \A j \in 1..Len(instructors) :
         instructors[j].prior => instructors[i].id # instructors[j].id

====
